---- MODULE Spec2Model ----
(***************************************************************************)
(* State-machine model of the socon registry (socon/core/registry), of the *)
(* settings object (socon/conf), of the override_settings test utility     *)
(* (socon/test/utils.py), of the managers and hooks (socon/core/manager.py)*)
(* and of project commands (socon/core/management/base.py).                *)
(*                                                                         *)
(* Python strings that the code takes apart (configuration names, object   *)
(* names) are sequences of one-character strings; a dict that the code     *)
(* only appends to is the sequence of its values in insertion order.       *)
(* Importing a configuration's managers module is recorded as a call and   *)
(* is taken to succeed.                                                    *)
(***************************************************************************)
EXTENDS Integers, Sequences, FiniteSets, TLC

VARIABLES
    registry_configs,      \* registry -> configurations, in insertion order
    unregistered_configs,  \* registry -> set of [entry, error]
    registry_ready,        \* registry -> BOOLEAN
    managers_ready,        \* registry -> BOOLEAN
    lock,                  \* registry -> BOOLEAN
    stored_configs,        \* registry -> stack of saved configuration maps
    wrapped,               \* settings._wrapped: <<>> is `empty`, else layers
    env_settings_module,   \* SOCON_SETTINGS_MODULE is set in os.environ
    blocks,                \* entered override_settings objects, innermost last
    managers,              \* ManagerRegistry.managers: name -> manager
    sys_modules,           \* the hook modules imported so far
    command,               \* the project command instance, if one was made
    active_project,        \* os.environ.get("SOCON_ACTIVE_PROJECT", "")
    active_project_set,    \* "SOCON_ACTIVE_PROJECT" in os.environ
    last                   \* outcome of the last call

vars == <<registry_configs, unregistered_configs, registry_ready,
          managers_ready, lock, stored_configs, wrapped,
          env_settings_module, blocks, managers, sys_modules,
          command, active_project, active_project_set, last>>

regvars == <<registry_configs, unregistered_configs, registry_ready,
             managers_ready, lock, stored_configs>>

mgrvars == <<managers, sys_modules>>

cmdvars == <<command, active_project, active_project_set>>

----------------------------------------------------------------------------
\* Bounds of the model.

\* longest `installed` list handed to populate / set_installed_configs
MaxInstalled == 2
\* deepest stored_configs stack explored
MaxStored == 2
\* deepest nesting of override_settings blocks
MaxNest == 2

----------------------------------------------------------------------------
\* Strings.

Dot == "."

Range(s) == {s[i] : i \in 1..Len(s)}

\* str.startswith
startswith(s, prefix) ==
    /\ Len(prefix) <= Len(s)
    /\ SubSeq(s, 1, Len(prefix)) = prefix

\* str.rpartition(".")[2]: what follows the last dot, the whole string if none
RECURSIVE rpartition_last(_)
rpartition_last(s) ==
    IF s = <<>> THEN <<>>
    ELSE IF s[Len(s)] = Dot THEN <<>>
    ELSE Append(rpartition_last(SubSeq(s, 1, Len(s) - 1)), s[Len(s)])

----------------------------------------------------------------------------
\* Configurations.

NoLabel == <<>>
NoConfig == [name |-> <<>>, label |-> <<>>]

\* RegistryConfig.__init__: the label is the class attribute when the class
\* has one, else the last component of the name.
RegistryConfig(config_name, class_label) ==
    [name  |-> config_name,
     label |-> IF class_label = NoLabel
               THEN rpartition_last(config_name)
               ELSE class_label]

\* The importable world the factory sees: modules without a configuration
\* submodule, and configuration classes reachable by their dotted path.
UserModules == { <<"a", ".", "b">> }

\* socon.core, and the package of the user's settings module
CoreModule      == <<"s", ".", "k">>
ContainerModule == <<"u">>

Modules == UserModules \cup {CoreModule, ContainerModule}

RelabeledPath == <<"a", ".", "b", ".", "R">>
NoSuchModule  == <<"x">>

ConfigClassPaths == { RelabeledPath }

ConfigClass(path) == [name |-> <<"a", ".", "b">>, label |-> <<"r">>]

\* RegistryConfig.create: a module entry gives the default class named by the
\* entry, a class path gives that class, anything else re-raises the import
\* error.
create(entry) ==
    IF entry \in Modules
    THEN [err |-> "none", cfg |-> RegistryConfig(entry, NoLabel)]
    ELSE IF entry \in ConfigClassPaths
    THEN [err |-> "none",
          cfg |-> RegistryConfig(ConfigClass(entry).name, ConfigClass(entry).label)]
    ELSE [err |-> "ImportError", cfg |-> NoConfig]

\* An entry of `installed` is an identifier or a ready-made instance.
Ident(id)     == [inst |-> FALSE, id |-> id, cfg |-> NoConfig]
Instance(cfg) == [inst |-> TRUE, id |-> <<>>, cfg |-> cfg]

ConfigA == RegistryConfig(<<"a">>, NoLabel)
ConfigB == RegistryConfig(<<"a", ".", "b">>, NoLabel)
ConfigR == RegistryConfig(<<"a", ".", "b">>, <<"r">>)

Entries ==
    {Ident(id) : id \in UserModules \cup ConfigClassPaths \cup {NoSuchModule}}
        \cup {Instance(ConfigA)}

\* populate lines 81-85: the instance itself, or what the factory gives
resolve(entry) ==
    IF entry.inst THEN [err |-> "none", cfg |-> entry.cfg] ELSE create(entry.id)

InstalledLists == UNION {[1..n -> Entries] : n \in 0..MaxInstalled}

\* the entries used where the saved maps pile up: two configurations of one
\* name, and an identifier the factory fails on
StackEntries ==
    {Ident(id) : id \in UserModules \cup ConfigClassPaths \cup {NoSuchModule}}

StackLists == UNION {[1..n -> StackEntries] : n \in 0..MaxInstalled}

\* the entries of the calls that are kept with their arguments: two
\* configurations of different names and labels, and an identifier the
\* factory fails on
PopulateEntries ==
    {Ident(id) : id \in UserModules \cup {NoSuchModule}}
        \cup {Instance(ConfigA)}

PopulateLists == UNION {[1..n -> PopulateEntries] : n \in 0..MaxInstalled}

----------------------------------------------------------------------------
\* One registry as a record, and BaseRegistry.populate on it.

Registries == {"test", "projects", "plugins", "common"}

Reg(r) ==
    [configs      |-> registry_configs[r],
     unregistered |-> unregistered_configs[r],
     ready        |-> registry_ready[r],
     mready       |-> managers_ready[r],
     lock         |-> lock[r],
     stored       |-> stored_configs[r]]

\* BaseRegistry.__init__ with installed=None
NewRegistry ==
    [configs |-> <<>>, unregistered |-> {}, ready |-> FALSE,
     mready |-> FALSE, lock |-> FALSE, stored |-> <<>>]

Labels(configs) == {configs[i].label : i \in 1..Len(configs)}
Names(configs)  == {configs[i].name : i \in 1..Len(configs)}

\* duplicates with the count compared to 1 instead of "more than 1"
duplicates_counts_once(configs) ==
    {n \in Names(configs) :
        Cardinality({i \in 1..Len(configs) : configs[i].name = n}) >= 1}

\* the Counter of lines 103-106: names that occur more than once
duplicates(configs) ==
    {n \in Names(configs) :
        Cardinality({i \in 1..Len(configs) : configs[i].name = n}) > 1}

\* unregistered_configs[entry] = e
record_unregistered(unregistered, entry, err) ==
    {u \in unregistered : u.entry # entry} \cup {[entry |-> entry, err |-> err]}

\* populate_loop without the label check: the dict entry is overwritten
RECURSIVE populate_loop_overwrites(_, _, _, _)
populate_loop_overwrites(run, installed, skip_error, i) ==
    IF i > Len(installed) THEN run
    ELSE
      LET entry == installed[i]
          res   == resolve(entry)
          put(configs) ==
              IF res.cfg.label \in Labels(configs)
              THEN [k \in 1..Len(configs) |->
                      IF configs[k].label = res.cfg.label
                      THEN res.cfg ELSE configs[k]]
              ELSE Append(configs, res.cfg)
      IN IF res.err # "none"
         THEN IF ~skip_error
              THEN [run EXCEPT !.raised = res.err]
              ELSE populate_loop_overwrites(
                     [run EXCEPT
                        !.st.unregistered =
                            {u \in @ : u.entry # entry}
                                \cup {[entry |-> entry, err |-> res.err]},
                        !.skipped = @ \cup {entry}],
                     installed, skip_error, i + 1)
         ELSE populate_loop_overwrites(
                [run EXCEPT !.st.configs = put(@), !.local = put(@)],
                installed, skip_error, i + 1)

\* populate_loop leaving the loop at a skipped entry (break for continue)
RECURSIVE populate_loop_stops(_, _, _, _)
populate_loop_stops(run, installed, skip_error, i) ==
    IF i > Len(installed) THEN run
    ELSE
      LET entry == installed[i]
          res   == resolve(entry)
      IN IF res.err # "none"
         THEN IF ~skip_error
              THEN [run EXCEPT !.raised = res.err]
              ELSE [run EXCEPT
                      !.st.unregistered =
                          {u \in @ : u.entry # entry}
                              \cup {[entry |-> entry, err |-> res.err]},
                      !.skipped = @ \cup {entry}]
         ELSE IF res.cfg.label \in Labels(run.st.configs)
         THEN [run EXCEPT !.raised = "DuplicateLabel"]
         ELSE populate_loop_stops(
                [run EXCEPT !.st.configs = Append(@, res.cfg),
                            !.local = Append(@, res.cfg)],
                installed, skip_error, i + 1)

\* The loop of lines 80-100 from position i on. `run` carries the registry
\* record, local_configs, the entries skipped by this call, and the error
\* raised ("none" while running).
RECURSIVE populate_loop(_, _, _, _)
populate_loop(run, installed, skip_error, i) ==
    IF i > Len(installed) THEN run
    ELSE
      LET entry == installed[i]
          res   == resolve(entry)
      IN IF res.err # "none"
         THEN IF ~skip_error
              THEN [run EXCEPT !.raised = res.err]
              ELSE populate_loop(
                     [run EXCEPT
                        !.st.unregistered =
                            record_unregistered(@, entry, res.err),
                        !.skipped = @ \cup {entry}],
                     installed, skip_error, i + 1)
         ELSE IF res.cfg.label \in Labels(run.st.configs)
         THEN [run EXCEPT !.raised = "DuplicateLabel"]
         ELSE populate_loop(
                [run EXCEPT !.st.configs = Append(@, res.cfg),
                            !.local = Append(@, res.cfg)],
                installed, skip_error, i + 1)

\* lines 102-123: the name check, the ready flag, the manager imports
populate_finish(run) ==
    IF run.raised # "none" THEN run
    ELSE IF duplicates(run.st.configs) # {}
    THEN [run EXCEPT !.raised = "DuplicateName"]
    ELSE [run EXCEPT !.st.ready = TRUE,
                     !.imported = run.local,
                     !.st.mready = TRUE]

\* populate without the early return of a locked registry
populate_ignores_lock(st, installed, skip_error, lk) ==
    populate_finish(
      populate_loop(
        [st |-> [st EXCEPT !.lock = IF lk THEN TRUE ELSE @],
         local |-> <<>>, skipped |-> {}, imported |-> <<>>,
         raised |-> "none", was_locked |-> st.lock],
        installed, skip_error, 1))

\* BaseRegistry.populate(installed, skip_error, lock)
populate(st, installed, skip_error, lk) ==
    LET start == [st |-> st, local |-> <<>>, skipped |-> {},
                  imported |-> <<>>, raised |-> "none",
                  was_locked |-> st.lock]
    IN IF st.lock THEN start
       ELSE populate_finish(
              populate_loop(
                [start EXCEPT !.st.lock = IF lk THEN TRUE ELSE @],
                installed, skip_error, 1))

\* BaseRegistry.set_installed_configs(installed, skip_error)
set_installed_configs(st, installed, skip_error) ==
    populate(
      [st EXCEPT !.stored = Append(@, st.configs),
                 !.configs = <<>>,
                 !.ready = FALSE,
                 !.lock = FALSE],
      installed, skip_error, TRUE)

\* pop(0): the oldest saved map
pop_first(stored) == 1

\* list.pop() of the saved maps: the last one pushed
pop_index(stored) == Len(stored)

remove_at(s, k) == SubSeq(s, 1, k - 1) \o SubSeq(s, k + 1, Len(s))

\* BaseRegistry.unset_installed_configs: pop from an empty list raises
\* before anything is assigned.
unset_installed_configs(st) ==
    IF st.stored = <<>>
    THEN [st |-> st, raised |-> "IndexError"]
    ELSE [st |-> [st EXCEPT !.configs = st.stored[pop_index(st.stored)],
                            !.stored = remove_at(@, pop_index(st.stored)),
                            !.ready = TRUE,
                            !.lock = TRUE],
          raised |-> "none"]

----------------------------------------------------------------------------
\* Settings: settings._wrapped as the layers it is built of, innermost first.
\* <<>> is the `empty` marker of an unconfigured LazySettings.

empty == <<>>

NoOptions ==
    [has_projects |-> FALSE, projects |-> <<>>,
     has_plugins |-> FALSE, plugins |-> <<>>, skip |-> "absent"]

\* the Settings object _setup builds from the settings module
SettingsWrapper == [kind |-> "Settings", opts |-> NoOptions]

\* UserSettingsHolder(default_settings) with the options set on it
UserSettingsHolder(opts) == [kind |-> "UserSettingsHolder", opts |-> opts]

\* LazySettings.configured
configured(w) == w # empty

\* LazySettings._setup, as __getattr__ calls it when _wrapped is empty
setup(w, env) ==
    IF w # empty THEN [wrapped |-> w, raised |-> "none"]
    ELSE IF env THEN [wrapped |-> <<SettingsWrapper>>, raised |-> "none"]
    ELSE [wrapped |-> w, raised |-> "ImproperlyConfigured"]

\* whether the chain of default_settings ends in a loaded Settings object
has_base(w) == w # empty /\ w[1].kind = "Settings"

\* settings.LOGGING: no holder of the model sets it, so it is read from the
\* loaded settings at the bottom of the chain.
read_LOGGING(w, env) ==
    LET s == setup(w, env)
    IN IF s.raised # "none" THEN s
       ELSE IF has_base(s.wrapped) THEN s
       ELSE [s EXCEPT !.raised = "AttributeError"]

\* settings.SKIP_ERROR_ON_PROJECTS_IMPORT: the outermost layer that sets it;
\* a layer it was deleted from ends the search; the loaded settings hold the
\* value of global_settings.py (True) until it is assigned or deleted.
\* LazySettings keeps the values it has read in its __dict__ and drops them
\* on every assignment, deletion and change of _wrapped (lines 113-136), so
\* a read is modelled as a read of the wrapper.
RECURSIVE lookup_skip(_, _)
lookup_skip(w, i) ==
    IF i = 0 THEN "AttributeError"
    ELSE IF w[i].opts.skip = "deleted" THEN "AttributeError"
    ELSE IF w[i].opts.skip # "absent" THEN w[i].opts.skip
    ELSE IF w[i].kind = "Settings" THEN "true"
    ELSE lookup_skip(w, i - 1)

read_SKIP_ERROR(w, env) ==
    LET s == setup(w, env)
    IN IF s.raised # "none"
       THEN [wrapped |-> s.wrapped, raised |-> s.raised, value |-> FALSE]
       ELSE LET v == lookup_skip(s.wrapped, Len(s.wrapped))
            IN IF v = "AttributeError"
               THEN [wrapped |-> s.wrapped, raised |-> v, value |-> FALSE]
               ELSE [wrapped |-> s.wrapped, raised |-> "none",
                     value |-> (v = "true")]

----------------------------------------------------------------------------
\* The query operations of a registry.

RetNone       == [kind |-> "None", b |-> FALSE, cfgs |-> <<>>]
RetBool(b)    == [kind |-> "bool", b |-> b, cfgs |-> <<>>]
RetConfig(c)  == [kind |-> "config", b |-> FALSE, cfgs |-> <<c>>]
RetConfigs(s) == [kind |-> "configs", b |-> FALSE, cfgs |-> s]

\* BaseRegistry.check_registry_ready
check_registry_ready(st, w, env) ==
    IF st.ready THEN [wrapped |-> w, raised |-> "none"]
    ELSE LET s == read_LOGGING(w, env)
         IN IF s.raised # "none" THEN s
            ELSE [s EXCEPT !.raised = "RegistryNotReady"]

\* the prefix test without the boundary check of lines 167-168
contains_prefix(config, object_name) == startswith(object_name, config.name)

\* lines 166-169: the configuration's name is a prefix ending at a dot
contains(config, object_name) ==
    /\ startswith(object_name, config.name)
    /\ LET subpath == SubSeq(object_name, Len(config.name) + 1, Len(object_name))
       IN subpath = <<>> \/ subpath[1] = Dot

\* sorted(candidates, key=-len(name))[0]: the first, in insertion order, of
\* the candidates with the longest name
first_longest(candidates) ==
    LET best == CHOOSE i \in 1..Len(candidates) :
                  /\ \A j \in 1..Len(candidates) :
                        Len(candidates[j].name) <= Len(candidates[i].name)
                  /\ \A j \in 1..(i - 1) :
                        Len(candidates[j].name) < Len(candidates[i].name)
    IN candidates[best]

\* BaseRegistry.get_containing_registry_config, after the ready check
get_containing_registry_config(st, object_name) ==
    LET candidates == SelectSeq(st.configs, LAMBDA c : contains(c, object_name))
    IN IF candidates # <<>> THEN RetConfig(first_longest(candidates))
       ELSE RetNone

\* BaseRegistry.is_installed, after the ready check
is_installed(st, name) ==
    RetBool(\E i \in 1..Len(st.configs) : st.configs[i].name = name)

\* BaseRegistry.get_registry_configs, after the ready check
get_registry_configs(st) == RetConfigs(st.configs)

\* BaseRegistry.get_registry_config, after the ready check
get_registry_config(st, label) ==
    IF label \in Labels(st.configs)
    THEN [raised |-> "none",
          ret |-> RetConfig(st.configs[CHOOSE i \in 1..Len(st.configs) :
                                         st.configs[i].label = label])]
    ELSE [raised |-> "LookupError", ret |-> RetNone]

\* the strings the query operations are called with
QueryStrings ==
    { <<"a">>, <<"a", ".", "b">>, <<"a", ".", "b", ".", "c">>,
      <<"a", "b">>, <<"b">>, <<"r">> }

QueryOps ==
    {"is_installed", "get_registry_configs", "get_registry_config",
     "get_containing_registry_config"}

\* query with get_registry_configs answering without the ready check
query_configs_unchecked(op, st, w, env, arg) ==
    LET chk == check_registry_ready(st, w, env)
    IN IF op = "get_registry_configs"
       THEN [wrapped |-> w, raised |-> "none", ret |-> get_registry_configs(st)]
       ELSE IF chk.raised # "none"
       THEN [wrapped |-> chk.wrapped, raised |-> chk.raised, ret |-> RetNone]
       ELSE IF op = "is_installed"
       THEN [wrapped |-> w, raised |-> "none", ret |-> is_installed(st, arg)]
       ELSE IF op = "get_registry_config"
       THEN [wrapped |-> w,
             raised |-> get_registry_config(st, arg).raised,
             ret |-> get_registry_config(st, arg).ret]
       ELSE [wrapped |-> w, raised |-> "none",
             ret |-> get_containing_registry_config(st, arg)]

\* one query: the ready check first, then the operation
query(op, st, w, env, arg) ==
    LET chk == check_registry_ready(st, w, env)
    IN IF chk.raised # "none"
       THEN [wrapped |-> chk.wrapped, raised |-> chk.raised, ret |-> RetNone]
       ELSE IF op = "is_installed"
       THEN [wrapped |-> w, raised |-> "none", ret |-> is_installed(st, arg)]
       ELSE IF op = "get_registry_configs"
       THEN [wrapped |-> w, raised |-> "none", ret |-> get_registry_configs(st)]
       ELSE IF op = "get_registry_config"
       THEN [wrapped |-> w,
             raised |-> get_registry_config(st, arg).raised,
             ret |-> get_registry_config(st, arg).ret]
       ELSE [wrapped |-> w, raised |-> "none",
             ret |-> get_containing_registry_config(st, arg)]

----------------------------------------------------------------------------
\* Managers and hooks (core/manager.py).

\* at most this many hook classes are registered in a run
MaxHooks == 2

NoName == "None"

\* the registries CoreRegistry.registries lists, in that order
CoreRegistries == <<"common", "plugins", "projects">>

\* the configurations hooks are defined in: socon.core and the container in
\* common, plugins named a and p.b, the project a.b
ConfigPB == RegistryConfig(<<"p", ".", "b">>, NoLabel)

\* a plugin whose hook module cannot be imported (see ModuleHooks)
ConfigQ == RegistryConfig(<<"q">>, NoLabel)

BucketLabels == { <<"k">>, <<"u">>, <<"a">>, <<"b">>, <<"q">> }

Buckets == {"common", "plugins", "projects"} \X BucketLabels

\* BaseManager.__init__: hooks and _imported_configs
NoHooks == [b \in Buckets |-> <<>>]

ManagerNames == {"m", "n"}

\* class CommandManager(BaseManager, name="commands"); get_modules lists the
\* modules of the management.commands package of a configuration, and each
\* configuration of the model has at most one, written c
CommandsModule == <<"c">>

CommandManager ==
    [cls |-> "CommandManager", name |-> "commands",
     lookup_module |-> CommandsModule]

NoManager ==
    [defined |-> FALSE, cls |-> NoName, lookup_module |-> <<>>,
     hooks |-> NoHooks, imported |-> {}]

BaseManager(cls, lookup) ==
    [defined |-> TRUE, cls |-> cls, lookup_module |-> lookup,
     hooks |-> NoHooks, imported |-> {}]

\* the manager classes of the model: two of one name, one without a name
ManagerClasses ==
    {[cls |-> "M1", name |-> "m", lookup_module |-> <<"l">>],
     [cls |-> "M2", name |-> "m", lookup_module |-> <<"l">>],
     [cls |-> "N1", name |-> "n", lookup_module |-> <<"l">>],
     [cls |-> "X1", name |-> NoName, lookup_module |-> <<"l">>]}

add_manager_overwrites(mgrs, c) ==
    [managers |-> [mgrs EXCEPT ![c.name] = BaseManager(c.cls, c.lookup_module)],
     raised |-> "none"]

\* ManagerRegistry.add_manager(cls()) for a class with both attributes
add_manager(mgrs, c) ==
    IF mgrs[c.name].defined
    THEN [managers |-> mgrs, raised |-> "ImproperlyConfigured"]
    ELSE [managers |-> [mgrs EXCEPT
                          ![c.name] = BaseManager(c.cls, c.lookup_module)],
          raised |-> "none"]

\* BaseManager.__init_subclass__: the mandatory attributes, then add_manager
manager_init_subclass(mgrs, c) ==
    IF c.name = NoName \/ c.lookup_module = <<>>
    THEN [managers |-> mgrs, raised |-> "ImproperlyConfigured"]
    ELSE add_manager(mgrs, c)

\* A hook class as its definition gives it: __name__, the name attribute
\* (NoName when the class has none), the manager attribute, __module__, the
\* abstract keyword of the class statement and the abstract attribute the
\* class has or inherits ("absent" when there is none).
NoHook ==
    [cls |-> NoName, name |-> NoName, manager |-> NoName, module |-> <<>>,
     abstract |-> FALSE, abstract_attr |-> "absent"]

\* getattr(hook, "name", hook.__name__)
hook_name(hook) == IF hook.name = NoName THEN hook.cls ELSE hook.name

\* Hook.__init_subclass__ line 81: getattr(cls, "abstract", abstract)
is_abstract(hook) ==
    IF hook.abstract_attr = "absent" THEN hook.abstract
    ELSE hook.abstract_attr = "true"

\* BaseManager.is_hooked: self.hooks gets a key with the first hook added
is_hooked(mgr) == \E b \in Buckets : mgr.hooks[b] # <<>>

NumHooks(mgrs) ==
    LET counts == [n \in ManagerNames |->
                     [b \in Buckets |-> Len(mgrs[n].hooks[b])]]
        RECURSIVE Sum(_, _)
        Sum(f, S) == IF S = {} THEN 0
                     ELSE LET x == CHOOSE y \in S : TRUE
                          IN f[x] + Sum(f, S \ {x})
    IN Sum([n \in ManagerNames |-> Sum(counts[n], Buckets)], ManagerNames)

add_hook_impl_replaces(mgr, reg, config, hook) ==
    LET b == <<reg, config.label>>
    IN [mgr |-> [mgr EXCEPT !.hooks[b] =
                   Append(SelectSeq(mgr.hooks[b],
                                    LAMBDA h : hook_name(h) # hook_name(hook)),
                          hook)],
        raised |-> "none"]

\* BaseManager.add_hook_impl(config, hook), config held by registry `reg`
add_hook_impl(mgr, reg, config, hook) ==
    LET b == <<reg, config.label>>
    IN IF \E i \in 1..Len(mgr.hooks[b]) :
              hook_name(mgr.hooks[b][i]) = hook_name(hook)
       THEN [mgr |-> mgr, raised |-> "ImproperlyConfigured"]
       ELSE [mgr |-> [mgr EXCEPT !.hooks[b] = Append(mgr.hooks[b], hook)],
             raised |-> "none"]

\* the candidates of CoreRegistry.get_containing_registry_config: one per
\* ready registry that has a containing configuration, in registry order
RECURSIVE core_candidates(_, _, _)
core_candidates(regs, object_name, i) ==
    IF i > Len(CoreRegistries) THEN <<>>
    ELSE LET r == CoreRegistries[i]
             c == get_containing_registry_config(regs[r], object_name)
             rest == core_candidates(regs, object_name, i + 1)
         IN IF regs[r].ready /\ c.kind = "config"
            THEN <<[reg |-> r, name |-> c.cfgs[1].name, cfg |-> c.cfgs[1]]>>
                     \o rest
            ELSE rest

NoOwner == [reg |-> "none", name |-> <<>>, cfg |-> NoConfig]

core_containing_first(regs, object_name) ==
    LET candidates == core_candidates(regs, object_name, 1)
    IN IF candidates # <<>> THEN candidates[1] ELSE NoOwner

\* CoreRegistry.get_containing_registry_config
core_containing(regs, object_name) ==
    LET candidates == core_candidates(regs, object_name, 1)
    IN IF candidates # <<>> THEN first_longest(candidates) ELSE NoOwner

\* Hook.__init_subclass__
hook_init_subclass(mgrs, regs, hook) ==
    IF is_abstract(hook) THEN [managers |-> mgrs, raised |-> "none"]
    ELSE IF hook.manager = NoName
    THEN [managers |-> mgrs, raised |-> "ImproperlyConfigured"]
    ELSE IF ~mgrs[hook.manager].defined
    THEN [managers |-> mgrs, raised |-> "ManagerNotFound"]
    ELSE LET owner == core_containing(regs, hook.module)
             o == add_hook_impl(mgrs[hook.manager], owner.reg, owner.cfg, hook)
         IN IF owner = NoOwner
            THEN [managers |-> mgrs, raised |-> "RuntimeError"]
            ELSE [managers |-> [mgrs EXCEPT ![hook.manager] = o.mgr],
                  raised |-> o.raised]

----------------------------------------------------------------------------
\* Project commands (core/management/base.py 447-497).

\* no ProjectCommand has been instantiated
NoCommand == [made |-> FALSE, projects |-> <<>>, restricted_projects |-> <<>>]

\* the "__all__" entry of ProjectCommand.projects
AllProjects == <<"_", "_", "a", "l", "l", "_", "_">>

\* [pc.label for pc in projects.get_registry_configs()]
available_projects(st) == [i \in 1..Len(st.configs) |-> st.configs[i].label]

in_list(x, list) == \E i \in 1..Len(list) : list[i] = x

\* ProjectCommand.__init__ for a class whose projects attribute is `projects`
project_command_init(st, w, env, projects) ==
    LET chk == check_registry_ready(st, w, env)
        available == available_projects(st)
    IN IF chk.raised # "none"
       THEN [command |-> NoCommand, wrapped |-> chk.wrapped,
             raised |-> chk.raised]
       ELSE [command |->
               [made |-> TRUE, projects |-> projects,
                restricted_projects |->
                  IF in_list(AllProjects, projects) THEN available
                  ELSE SelectSeq(available,
                                 LAMBDA label : in_list(label, projects))],
             wrapped |-> w, raised |-> "none"]

\* ProjectRegistry.get_project_config_by_env
get_project_config_by_env(st, w, env, active) ==
    LET chk == check_registry_ready(st, w, env)
    IN IF chk.raised # "none"
       THEN [wrapped |-> chk.wrapped, raised |-> chk.raised, ret |-> RetNone]
       ELSE IF active = <<>>
       THEN [wrapped |-> w, raised |-> "LookupError", ret |-> RetNone]
       ELSE [wrapped |-> w,
             raised |-> get_registry_config(st, active).raised,
             ret |-> get_registry_config(st, active).ret]

execute_unrestricted(cmd, st, w, env, active) ==
    LET p == get_project_config_by_env(st, w, env, active)
    IN IF p.raised # "none"
       THEN [wrapped |-> p.wrapped, raised |-> p.raised, handled |-> FALSE,
             ret |-> RetNone]
       ELSE [wrapped |-> w, raised |-> "none", handled |-> TRUE,
             ret |-> p.ret]

\* ProjectCommand.execute: handled tells whether handle was called, ret is
\* the project configuration it was called with
execute(cmd, st, w, env, active) ==
    LET p == get_project_config_by_env(st, w, env, active)
    IN IF p.raised # "none"
       THEN [wrapped |-> p.wrapped, raised |-> p.raised, handled |-> FALSE,
             ret |-> RetNone]
       ELSE IF ~in_list(p.ret.cfgs[1].label, cmd.restricted_projects)
       THEN [wrapped |-> w, raised |-> "CommandError", handled |-> FALSE,
             ret |-> RetNone]
       ELSE [wrapped |-> w, raised |-> "none", handled |-> TRUE,
             ret |-> p.ret]

----------------------------------------------------------------------------
\* Initial state and the registry operations as actions.

\* os.environ, as far as the program reads it
Environ(settings_module, project, project_set) ==
    [settings_module |-> settings_module, project |-> project,
     project_set |-> project_set]

NoCall ==
    [op |-> "none", reg |-> "none", raised |-> "none", imported |-> <<>>,
     skipped |-> {}, was_locked |-> FALSE, arg |-> <<>>, ret |-> RetNone,
     installed |-> <<>>, skip_error |-> FALSE, lk |-> FALSE,
     pre |-> NewRegistry, opts |-> NoOptions,
     mgr |-> NoName, hook |-> NoHook, owner |-> "none", cls |-> NoName,
     hname |-> NoName, mods |-> <<>>, handled |-> FALSE,
     project |-> <<>>, traceback |-> FALSE, exit |-> <<>>, holders |-> {},
     environ |-> Environ(FALSE, <<>>, FALSE),
     inside |-> Environ(FALSE, <<>>, FALSE), execute_raised |-> "none",
     returncode |-> <<>>]

\* CoreRegistry.__init__: the common registry is populated with socon.core
\* and left unlocked
CommonRegistry ==
    populate(NewRegistry, <<Ident(CoreModule)>>, FALSE, FALSE).st

\* registry/core.py: the registries are built with installed=None and the
\* common one is populated; conf/__init__.py: settings = CoreSettings() is
\* unevaluated.
InitRegistry(r) == IF r = "common" THEN CommonRegistry ELSE NewRegistry

Init ==
    /\ registry_configs = [r \in Registries |-> InitRegistry(r).configs]
    /\ unregistered_configs = [r \in Registries |-> InitRegistry(r).unregistered]
    /\ registry_ready = [r \in Registries |-> InitRegistry(r).ready]
    /\ managers_ready = [r \in Registries |-> InitRegistry(r).mready]
    /\ lock = [r \in Registries |-> InitRegistry(r).lock]
    /\ stored_configs = [r \in Registries |-> InitRegistry(r).stored]
    /\ wrapped = empty
    /\ env_settings_module = FALSE
    /\ blocks = <<>>
    /\ managers = [n \in ManagerNames \cup {CommandManager.name} |-> NoManager]
    /\ command = NoCommand
    /\ active_project = <<>>
    /\ active_project_set = FALSE
    /\ sys_modules = {}
    /\ last = NoCall

AllRegs == [r \in Registries |-> Reg(r)]

SetRegs(regs) ==
    /\ registry_configs' = [r \in Registries |-> regs[r].configs]
    /\ unregistered_configs' = [r \in Registries |-> regs[r].unregistered]
    /\ registry_ready' = [r \in Registries |-> regs[r].ready]
    /\ managers_ready' = [r \in Registries |-> regs[r].mready]
    /\ lock' = [r \in Registries |-> regs[r].lock]
    /\ stored_configs' = [r \in Registries |-> regs[r].stored]

SetReg(r, st) == SetRegs([AllRegs EXCEPT ![r] = st])

PopulateOutcome(op, r, o) ==
    [NoCall EXCEPT !.op = op, !.reg = r, !.raised = o.raised,
                   !.imported = o.imported, !.skipped = o.skipped,
                   !.was_locked = o.was_locked]

\* registry.populate(installed, skip_error, lock)
Populate(r, installed, skip_error, lk) ==
    LET o == populate(Reg(r), installed, skip_error, lk)
    IN /\ SetReg(r, o.st)
       /\ last' = PopulateOutcome("populate", r, o)
       /\ UNCHANGED <<wrapped, env_settings_module, blocks, mgrvars, cmdvars>>

\* the same call, with its arguments and the registry it met kept in `last`
PopulateCall(r, installed, skip_error, lk) ==
    LET o == populate(Reg(r), installed, skip_error, lk)
    IN /\ SetReg(r, o.st)
       /\ last' = [PopulateOutcome("populate", r, o) EXCEPT
                     !.installed = installed, !.skip_error = skip_error,
                     !.lk = lk, !.pre = Reg(r)]
       /\ UNCHANGED <<wrapped, env_settings_module, blocks, mgrvars, cmdvars>>

\* registry.set_installed_configs(installed, skip_error)
SetInstalled(r, installed, skip_error) ==
    /\ Len(stored_configs[r]) < MaxStored
    /\ LET o == set_installed_configs(Reg(r), installed, skip_error)
       IN /\ SetReg(r, o.st)
          /\ last' = PopulateOutcome("set_installed_configs", r, o)
    /\ UNCHANGED <<wrapped, env_settings_module, blocks, mgrvars, cmdvars>>

\* registry.unset_installed_configs()
UnsetInstalled(r) ==
    LET o == unset_installed_configs(Reg(r))
    IN /\ SetReg(r, o.st)
       /\ last' = [NoCall EXCEPT !.op = "unset_installed_configs", !.reg = r,
                                 !.raised = o.raised]
       /\ UNCHANGED <<wrapped, env_settings_module, blocks, mgrvars, cmdvars>>

\* one of the four query operations
Query(r, op, arg) ==
    LET o == query(op, Reg(r), wrapped, env_settings_module, arg)
    IN /\ wrapped' = o.wrapped
       /\ last' = [NoCall EXCEPT !.op = op, !.reg = r, !.raised = o.raised,
                                 !.arg = arg, !.ret = o.ret]
       /\ UNCHANGED <<regvars, env_settings_module, blocks, mgrvars, cmdvars>>

----------------------------------------------------------------------------
\* Specifications over one registry built as BaseRegistry("test", None).

PopulateTest ==
    \E installed \in InstalledLists, skip_error \in BOOLEAN, lk \in BOOLEAN :
        Populate("test", installed, skip_error, lk)

PopulateCallTest ==
    \E installed \in PopulateLists, skip_error \in BOOLEAN, lk \in BOOLEAN :
        PopulateCall("test", installed, skip_error, lk)

PopulateStack ==
    \E installed \in StackLists, skip_error \in BOOLEAN, lk \in BOOLEAN :
        Populate("test", installed, skip_error, lk)

SetInstalledStack ==
    \E installed \in StackLists, skip_error \in BOOLEAN :
        SetInstalled("test", installed, skip_error)

UnsetInstalledStack == UnsetInstalled("test")

QueryTest ==
    \E op \in QueryOps, arg \in QueryStrings : Query("test", op, arg)

\* os.environ.setdefault("SOCON_SETTINGS_MODULE", ...), as a manage.py does
SetSettingsModule ==
    /\ ~env_settings_module
    /\ env_settings_module' = TRUE
    /\ last' = NoCall
    /\ UNCHANGED <<regvars, wrapped, blocks, mgrvars, cmdvars>>

\* populate alone, each call kept with its arguments
NextPopulate == PopulateCallTest
SpecPopulate == Init /\ [][NextPopulate]_vars

\* populate and the set/unset pair
NextRegistry == PopulateStack \/ SetInstalledStack \/ UnsetInstalledStack
SpecRegistry == Init /\ [][NextRegistry]_vars

\* populate together with the queries and the settings they read
NextQuery == PopulateTest \/ QueryTest \/ SetSettingsModule
SpecQuery == Init /\ [][NextQuery]_vars

----------------------------------------------------------------------------
\* Properties of populate (SpecPopulate: `last` holds the call).

\* every entry of the list resolves to a configuration
Resolves(installed) ==
    \A i \in 1..Len(installed) : resolve(installed[i]).err = "none"

\* the configurations the entries resolve to, in order
Resolved(installed) ==
    [i \in 1..Len(installed) |-> resolve(installed[i]).cfg]

PairwiseDistinct(installed) ==
    \A i, j \in 1..Len(installed) :
        i # j => /\ Resolved(installed)[i].label # Resolved(installed)[j].label
                 /\ Resolved(installed)[i].name # Resolved(installed)[j].name

\* two entries of the list resolve to configurations of one label
SharesLabel(installed) ==
    \E i, j \in 1..Len(installed) :
        /\ i < j
        /\ resolve(installed[i]).err = "none"
        /\ resolve(installed[j]).err = "none"
        /\ resolve(installed[i]).cfg.label = resolve(installed[j]).cfg.label

FreshPopulate ==
    /\ last.op = "populate"
    /\ ~last.pre.lock
    /\ last.pre.configs = <<>>

C2_DuplicateLabelBeforeImports ==
    (/\ last.op = "populate"
     /\ ~last.pre.lock
     /\ SharesLabel(last.installed))
    => /\ last.raised # "none"
       /\ last.imported = <<>>
       /\ managers_ready[last.reg] = last.pre.mready
       /\ (Resolves(last.installed) \/ last.skip_error)
             => last.raised = "DuplicateLabel"

C2_Witness ==
    /\ last.op = "populate"
    /\ ~last.pre.lock
    /\ Len(last.installed) = 2
    /\ SharesLabel(last.installed)
    /\ last.raised = "DuplicateLabel"
    /\ last.imported = <<>>

\* the entries of the list the factory fails on, and the list without them
Failing(installed) ==
    {installed[i] : i \in {k \in 1..Len(installed) :
                              resolve(installed[k]).err # "none"}}

WithoutFailing(installed) ==
    SelectSeq(installed, LAMBDA e : resolve(e).err = "none")

SkippingPopulate ==
    /\ last.op = "populate"
    /\ ~last.pre.lock
    /\ last.skip_error
    /\ Failing(last.installed) # {}

\* C5: with skip_error, populate of an unlocked registry never raises a
\* factory error; configurations, flags, imports and the error raised are
\* those of the same call on the list without the failing entries; and a call
\* that returns has every failing entry, with its error, in
\* unregistered_configs.
C5_SkipErrorAsIfAbsent ==
    SkippingPopulate =>
      LET o == populate(last.pre, WithoutFailing(last.installed),
                        TRUE, last.lk)
      IN /\ last.raised \in {"none", "DuplicateLabel", "DuplicateName"}
         /\ registry_configs[last.reg] = o.st.configs
         /\ registry_ready[last.reg] = o.st.ready
         /\ managers_ready[last.reg] = o.st.mready
         /\ lock[last.reg] = o.st.lock
         /\ last.raised = o.raised
         /\ last.imported = o.imported
         /\ last.skipped \subseteq Failing(last.installed)
         /\ \A e \in last.skipped :
               [entry |-> e, err |-> resolve(e).err]
                   \in unregistered_configs[last.reg]
         /\ last.raised = "none" => last.skipped = Failing(last.installed)
         /\ last.pre.unregistered \subseteq unregistered_configs[last.reg]

C5_Witness ==
    /\ SkippingPopulate
    /\ WithoutFailing(last.installed) # <<>>
    /\ last.installed[1] \in Failing(last.installed)
    /\ last.raised = "none"
    /\ last.imported = Resolved(WithoutFailing(last.installed))
    /\ \E u \in unregistered_configs[last.reg] : u.entry = last.installed[1]

----------------------------------------------------------------------------
\* Properties of the registry under populate, set and unset (SpecRegistry).

\* C3: a ready registry holds no two configurations of one name.
C3_ReadyNamesUnique ==
    \A r \in Registries :
        registry_ready[r] => duplicates(registry_configs[r]) = {}

\* C4: a populate step on a locked registry returns normally, imports
\* nothing and leaves the registry as it was; while a registry is locked only
\* set_installed_configs and unset_installed_configs change its map.
C4_LockedPopulateNoOp ==
    [][\A r \in Registries :
         lock[r] =>
           /\ (last'.op = "populate" /\ last'.reg = r)
                => /\ last'.raised = "none"
                   /\ last'.imported = <<>>
                   /\ registry_configs'[r] = registry_configs[r]
                   /\ unregistered_configs'[r] = unregistered_configs[r]
                   /\ registry_ready'[r] = registry_ready[r]
                   /\ managers_ready'[r] = managers_ready[r]
                   /\ lock'[r]
           /\ registry_configs'[r] # registry_configs[r]
                => last'.op \in {"set_installed_configs",
                                 "unset_installed_configs"}]_vars

C4_Witness ==
    /\ last.op = "populate"
    /\ last.was_locked
    /\ lock[last.reg]
    /\ registry_configs[last.reg] # <<>>

\* C8: set_installed_configs pushes the map that was current, populate leaves
\* the saved maps alone, and unset_installed_configs makes the map pushed last
\* current again and removes it from the saved maps.
C8_StackDiscipline ==
    [][\A r \in Registries :
         /\ (last'.op = "set_installed_configs" /\ last'.reg = r)
              => stored_configs'[r]
                    = Append(stored_configs[r], registry_configs[r])
         /\ (last'.op = "populate" /\ last'.reg = r)
              => stored_configs'[r] = stored_configs[r]
         /\ (/\ last'.op = "unset_installed_configs"
             /\ last'.reg = r
             /\ stored_configs[r] # <<>>)
              => /\ last'.raised = "none"
                 /\ registry_configs'[r]
                       = stored_configs[r][Len(stored_configs[r])]
                 /\ stored_configs'[r]
                       = SubSeq(stored_configs[r], 1,
                                Len(stored_configs[r]) - 1)]_vars

\* an unset inside a nesting of two: one saved map is left, and it differs
\* from the map just restored
C8_Witness ==
    /\ last.op = "unset_installed_configs"
    /\ last.raised = "none"
    /\ Len(stored_configs[last.reg]) = 1
    /\ stored_configs[last.reg][1] # registry_configs[last.reg]
    /\ registry_configs[last.reg] # <<>>

----------------------------------------------------------------------------
\* Properties of the queries (SpecQuery).

\* C6: with settings that load, a query of a registry that is not ready
\* raises RegistryNotReady and returns nothing.
C6_QueryNotReady ==
    (/\ last.op \in QueryOps
     /\ ~registry_ready[last.reg]
     /\ has_base(wrapped))
    => /\ last.raised = "RegistryNotReady"
       /\ last.ret = RetNone

C6_Witness ==
    /\ last.op = "get_registry_configs"
    /\ ~registry_ready[last.reg]
    /\ registry_configs[last.reg] # <<>>
    /\ has_base(wrapped)
    /\ last.raised = "RegistryNotReady"

\* the configurations whose name is the object name or a prefix of it that
\* is followed by a dot
Containing(configs, object_name) ==
    {c \in Range(configs) :
        \/ object_name = c.name
        \/ startswith(object_name, c.name \o <<Dot>>)}

\* C7: get_containing_registry_config returns None when no configuration
\* contains the object name, and otherwise one of the containing
\* configurations with no containing configuration of a longer name.
C7_ContainingLongestPrefix ==
    (/\ last.op = "get_containing_registry_config"
     /\ last.raised = "none")
    => LET found == Containing(registry_configs[last.reg], last.arg)
       IN /\ found = {} => last.ret = RetNone
          /\ found # {} =>
               /\ last.ret.kind = "config"
               /\ last.ret.cfgs[1] \in found
               /\ \A c \in found : Len(c.name) <= Len(last.ret.cfgs[1].name)

C7_Witness ==
    /\ last.op = "get_containing_registry_config"
    /\ last.raised = "none"
    /\ last.arg = <<"a", ".", "b", ".", "c">>
    /\ {ConfigA, ConfigB} \subseteq Range(registry_configs[last.reg])
    /\ last.ret = RetConfig(ConfigB)

----------------------------------------------------------------------------
\* socon.setup() and override_settings over the projects and plugins
\* registries.

\* INSTALLED_PROJECTS and INSTALLED_PLUGINS of the user's settings module
SettingsProjects == <<Ident(<<"a", ".", "b">>)>>
SettingsPlugins  == <<>>

\* settings.INSTALLED_PROJECTS / settings.INSTALLED_PLUGINS of configured
\* settings: the outermost holder that sets the key, else the loaded settings
RECURSIVE read_INSTALLED(_, _, _)
read_INSTALLED(w, key, i) ==
    IF i = 0 THEN [raised |-> "AttributeError", value |-> <<>>]
    ELSE IF w[i].kind = "Settings"
    THEN [raised |-> "none",
          value |-> IF key = "projects" THEN SettingsProjects
                    ELSE SettingsPlugins]
    ELSE IF key = "projects" /\ w[i].opts.has_projects
    THEN [raised |-> "none", value |-> w[i].opts.projects]
    ELSE IF key = "plugins" /\ w[i].opts.has_plugins
    THEN [raised |-> "none", value |-> w[i].opts.plugins]
    ELSE read_INSTALLED(w, key, i - 1)

\* CoreSettings.get_settings_module_name, as a list of at most one entry
container_names(w, env) ==
    IF configured(w) /\ env THEN <<Ident(ContainerModule)>> ELSE <<>>

\* socon.setup(): the first setting read loads the settings, then plugins,
\* projects and the container configuration are populated; the first error
\* ends the call.
socon_setup(regs, w, env) ==
    LET s == read_LOGGING(w, env)
    IN IF s.raised # "none"
       THEN [regs |-> regs, wrapped |-> s.wrapped, raised |-> s.raised]
       ELSE
         LET plug == populate(
                       regs["plugins"],
                       read_INSTALLED(s.wrapped, "plugins", Len(s.wrapped)).value,
                       FALSE, TRUE)
             proj == populate(
                       regs["projects"],
                       read_INSTALLED(s.wrapped, "projects", Len(s.wrapped)).value,
                       lookup_skip(s.wrapped, Len(s.wrapped)) = "true", TRUE)
             comm == populate(regs["common"],
                              container_names(s.wrapped, env), TRUE, TRUE)
             r1 == [regs EXCEPT !["plugins"] = plug.st]
             r2 == [r1 EXCEPT !["projects"] = proj.st]
             r3 == IF container_names(s.wrapped, env) = <<>> THEN r2
                   ELSE [r2 EXCEPT !["common"] = comm.st]
         IN IF plug.raised # "none"
            THEN [regs |-> r1, wrapped |-> s.wrapped, raised |-> plug.raised]
            ELSE IF proj.raised # "none"
            THEN [regs |-> r2, wrapped |-> s.wrapped, raised |-> proj.raised]
            ELSE IF container_names(s.wrapped, env) # <<>>
                    /\ comm.raised # "none"
            THEN [regs |-> r3, wrapped |-> s.wrapped, raised |-> comm.raised]
            ELSE [regs |-> r3, wrapped |-> s.wrapped, raised |-> "none"]

\* what the except clauses of __enter__ do: undo on the registry, then
\* re-raise (an error of the undo itself takes the place of the first one)
undo_and_raise(regs, r, st, w, raised) ==
    LET u == unset_installed_configs(st)
    IN [regs |-> [regs EXCEPT ![r] = u.st],
        wrapped |-> w,
        raised |-> IF u.raised # "none" THEN u.raised ELSE raised]

\* override_settings.__enter__ lines 35-45
enter_projects(regs, w, env, opts) ==
    IF ~opts.has_projects
    THEN [regs |-> regs, wrapped |-> w, raised |-> "none"]
    ELSE
      LET rs == read_SKIP_ERROR(w, env)
          skip_error == IF opts.skip # "absent" THEN opts.skip = "true"
                        ELSE rs.value
          o == set_installed_configs(regs["projects"], opts.projects,
                                     skip_error)
      IN IF rs.raised # "none"
         THEN undo_and_raise(regs, "projects", regs["projects"],
                             rs.wrapped, rs.raised)
         ELSE IF o.raised # "none"
         THEN undo_and_raise(regs, "projects", o.st, rs.wrapped, o.raised)
         ELSE [regs |-> [regs EXCEPT !["projects"] = o.st],
               wrapped |-> rs.wrapped, raised |-> "none"]

\* override_settings.__enter__ lines 46-53
enter_plugins(regs, w, opts) ==
    IF ~opts.has_plugins
    THEN [regs |-> regs, wrapped |-> w, raised |-> "none"]
    ELSE
      LET o == set_installed_configs(regs["plugins"], opts.plugins, FALSE)
      IN IF o.raised # "none"
         THEN undo_and_raise(regs, "plugins", o.st, w, o.raised)
         ELSE [regs |-> [regs EXCEPT !["plugins"] = o.st],
               wrapped |-> w, raised |-> "none"]

\* override_settings.__enter__: `saved` is self.wrapped
enter(regs, w, env, opts) ==
    LET p == enter_projects(regs, w, env, opts)
        q == enter_plugins(p.regs, p.wrapped, opts)
    IN IF p.raised # "none"
       THEN [regs |-> p.regs, wrapped |-> p.wrapped, raised |-> p.raised,
             saved |-> w]
       ELSE IF q.raised # "none"
       THEN [regs |-> q.regs, wrapped |-> q.wrapped, raised |-> q.raised,
             saved |-> w]
       ELSE [regs |-> q.regs,
             wrapped |-> Append(q.wrapped, UserSettingsHolder(opts)),
             raised |-> "none",
             saved |-> q.wrapped]

\* override_settings.__exit__ of a block entered with `opts` and `saved`
exit(regs, w, opts, saved) ==
    LET p == IF opts.has_projects
             THEN unset_installed_configs(regs["projects"])
             ELSE [st |-> regs["projects"], raised |-> "none"]
        r1 == [regs EXCEPT !["projects"] = p.st]
        q == IF opts.has_plugins
             THEN unset_installed_configs(r1["plugins"])
             ELSE [st |-> r1["plugins"], raised |-> "none"]
        r2 == [r1 EXCEPT !["plugins"] = q.st]
    IN IF p.raised # "none"
       THEN [regs |-> r1, wrapped |-> w, raised |-> p.raised]
       ELSE IF q.raised # "none"
       THEN [regs |-> r2, wrapped |-> w, raised |-> q.raised]
       ELSE [regs |-> r2, wrapped |-> saved, raised |-> "none"]

\* the keyword arguments override_settings objects are built with
ProjectOverrides == { <<Ident(RelabeledPath)>>, <<Ident(NoSuchModule)>> }
PluginOverrides  == { <<Ident(<<"a", ".", "b">>)>>, <<Ident(NoSuchModule)>> }

OverrideOptions ==
    {[has_projects |-> TRUE, projects |-> pr, has_plugins |-> FALSE,
      plugins |-> <<>>, skip |-> sk] :
        pr \in ProjectOverrides, sk \in {"absent", "false"}}
    \cup
    {[has_projects |-> FALSE, projects |-> <<>>, has_plugins |-> TRUE,
      plugins |-> pl, skip |-> "absent"] : pl \in PluginOverrides}
    \cup
    {[has_projects |-> TRUE, projects |-> pr, has_plugins |-> TRUE,
      plugins |-> pl, skip |-> "false"] :
        pr \in ProjectOverrides, pl \in PluginOverrides}
    \cup
    {[NoOptions EXCEPT !.skip = "false"]}

\* socon.setup()
Setup ==
    LET o == socon_setup(AllRegs, wrapped, env_settings_module)
    IN /\ SetRegs(o.regs)
       /\ wrapped' = o.wrapped
       /\ last' = [NoCall EXCEPT !.op = "setup", !.raised = o.raised]
       /\ UNCHANGED <<env_settings_module, blocks, mgrvars, cmdvars>>

\* `with override_settings(**opts):` reaches its body, or __enter__ raises.
\* A block keeps the settings it saved and, for the properties below, the
\* projects registry it was entered from.
Enter(opts) ==
    /\ Len(blocks) < MaxNest
    /\ Len(wrapped) <= MaxNest
    /\ \A r \in {"projects", "plugins"} : Len(stored_configs[r]) < MaxStored
    /\ LET o == enter(AllRegs, wrapped, env_settings_module, opts)
       IN /\ SetRegs(o.regs)
          /\ wrapped' = o.wrapped
          /\ blocks' = IF o.raised # "none" THEN blocks
                       ELSE Append(blocks,
                                   [opts |-> opts, wrapped |-> o.saved,
                                    pre |-> Reg("projects")])
          /\ last' = [NoCall EXCEPT !.op = "enter", !.raised = o.raised,
                                    !.opts = opts]
    /\ UNCHANGED <<env_settings_module, mgrvars, cmdvars>>

\* the body of the innermost block ends and its __exit__ runs
Exit ==
    /\ blocks # <<>>
    /\ LET b == blocks[Len(blocks)]
           o == exit(AllRegs, wrapped, b.opts, b.wrapped)
       IN /\ SetRegs(o.regs)
          /\ wrapped' = o.wrapped
          /\ blocks' = SubSeq(blocks, 1, Len(blocks) - 1)
          /\ last' = [NoCall EXCEPT !.op = "exit", !.raised = o.raised,
                                    !.opts = b.opts, !.pre = b.pre]
    /\ UNCHANGED <<env_settings_module, mgrvars, cmdvars>>

EnterBlock == \E opts \in OverrideOptions : Enter(opts)

QueryProjects ==
    \E op \in QueryOps, arg \in QueryStrings : Query("projects", op, arg)

NextOverride ==
    SetSettingsModule \/ Setup \/ EnterBlock \/ Exit \/ QueryProjects
SpecOverride == Init /\ [][NextOverride]_vars

\* C9: when a block entered with INSTALLED_PROJECTS is left, the projects
\* registry holds the configurations it held when the block was entered.
C9_OverrideRoundTrip ==
    (last.op = "exit" /\ last.opts.has_projects)
    => registry_configs["projects"] = last.pre.configs

\* C10: an __enter__ that raises leaves the configurations and the number
\* of saved maps of the projects and of the plugins registry as they were,
\* and installs no settings holder (loading the settings on their first read
\* is not counted as a change).
C10_EnterRaisesRollsBack ==
    [][(last'.op = "enter" /\ last'.raised # "none")
        => /\ \A r \in {"projects", "plugins"} :
                /\ registry_configs'[r] = registry_configs[r]
                /\ Len(stored_configs'[r]) = Len(stored_configs[r])
           /\ \/ wrapped' = wrapped
              \/ wrapped = empty /\ wrapped' = <<SettingsWrapper>>]_vars

----------------------------------------------------------------------------
\* Assignment, deletion and manual configuration of settings.

\* LazySettings.__setattr__ of SKIP_ERROR_ON_PROJECTS_IMPORT: the settings
\* are loaded if need be, and the value is set on the current wrapper
setattr_SKIP(w, env, v) ==
    LET s == setup(w, env)
    IN IF s.raised # "none" THEN s
       ELSE [wrapped |-> [s.wrapped EXCEPT ![Len(s.wrapped)].opts.skip = v],
             raised |-> "none"]

\* LazySettings.__delattr__ of SKIP_ERROR_ON_PROJECTS_IMPORT: a holder notes
\* the name as deleted, the loaded settings lose the attribute and raise
\* when they do not have it
delattr_SKIP(w, env) ==
    LET s == setup(w, env)
        top == s.wrapped[Len(s.wrapped)]
    IN IF s.raised # "none" THEN s
       ELSE IF top.kind = "Settings" /\ top.opts.skip = "deleted"
       THEN [wrapped |-> s.wrapped, raised |-> "AttributeError"]
       ELSE [wrapped |-> [s.wrapped EXCEPT
                            ![Len(s.wrapped)].opts.skip = "deleted"],
             raised |-> "none"]

configure_unchecked(w, options) ==
    [wrapped |-> <<UserSettingsHolder(options)>>, raised |-> "none"]

\* LazySettings.configure(default_settings, **options), default_settings an
\* object without settings of its own
configure(w, options) ==
    IF w # empty THEN [wrapped |-> w, raised |-> "RuntimeError"]
    ELSE [wrapped |-> <<UserSettingsHolder(options)>>, raised |-> "none"]

SkipValues == {"true", "false"}

ConfigureOptions == {NoOptions, [NoOptions EXCEPT !.skip = "true"]}

\* settings.SKIP_ERROR_ON_PROJECTS_IMPORT = v
AssignSetting ==
    \E v \in SkipValues :
        LET o == setattr_SKIP(wrapped, env_settings_module, v)
        IN /\ wrapped' = o.wrapped
           /\ last' = [NoCall EXCEPT !.op = "setattr", !.raised = o.raised]
           /\ UNCHANGED <<regvars, env_settings_module, blocks, mgrvars, cmdvars>>

\* del settings.SKIP_ERROR_ON_PROJECTS_IMPORT
DeleteSetting ==
    LET o == delattr_SKIP(wrapped, env_settings_module)
    IN /\ wrapped' = o.wrapped
       /\ last' = [NoCall EXCEPT !.op = "delattr", !.raised = o.raised]
       /\ UNCHANGED <<regvars, env_settings_module, blocks, mgrvars, cmdvars>>

\* settings.SKIP_ERROR_ON_PROJECTS_IMPORT
ReadSetting ==
    LET o == read_SKIP_ERROR(wrapped, env_settings_module)
    IN /\ wrapped' = o.wrapped
       /\ last' = [NoCall EXCEPT !.op = "getattr", !.raised = o.raised,
                                 !.ret = IF o.raised = "none"
                                         THEN RetBool(o.value) ELSE RetNone]
       /\ UNCHANGED <<regvars, env_settings_module, blocks, mgrvars, cmdvars>>

\* settings.configure(default_settings, **options)
Configure ==
    \E options \in ConfigureOptions :
        LET o == configure(wrapped, options)
        IN /\ wrapped' = o.wrapped
           /\ last' = [NoCall EXCEPT !.op = "configure", !.raised = o.raised,
                                     !.opts = options]
           /\ UNCHANGED <<regvars, env_settings_module, blocks, mgrvars, cmdvars>>

\* the blocks of the settings tests: a plain setting, or the installed
\* projects
SettingsOverrides ==
    {[NoOptions EXCEPT !.skip = "false"],
     [NoOptions EXCEPT !.has_projects = TRUE,
                       !.projects = <<Ident(RelabeledPath)>>]}

EnterSettingsBlock == \E opts \in SettingsOverrides : Enter(opts)

NextSettings ==
    \/ SetSettingsModule
    \/ EnterSettingsBlock
    \/ Exit
    \/ AssignSetting
    \/ DeleteSetting
    \/ ReadSetting
    \/ Configure
SpecSettings == Init /\ [][NextSettings]_vars

\* C11: the __exit__ of a block leaves settings._wrapped the wrapper that was
\* current when the block was entered, whatever was assigned, deleted or
\* nested inside it.
C11_ExitRestoresWrapper ==
    [][(last'.op = "exit" /\ Len(blocks') < Len(blocks))
        => wrapped' = blocks[Len(blocks)].wrapped]_vars

\* C19: configure on settings that are already initialised, by an earlier
\* configure or by the loading of the settings module on first access,
\* raises RuntimeError and leaves the wrapper, hence every value read from
\* it, unchanged.
C19_ConfigureTwiceRaises ==
    [][(last'.op = "configure" /\ wrapped # empty)
        => /\ last'.raised = "RuntimeError"
           /\ wrapped' = wrapped
           /\ lookup_skip(wrapped', Len(wrapped'))
                = lookup_skip(wrapped, Len(wrapped))]_vars

C19_Witness ==
    /\ last.op = "configure"
    /\ last.raised = "RuntimeError"
    /\ has_base(wrapped)
    /\ blocks = <<>>

----------------------------------------------------------------------------
\* Hook discovery and search (core/manager.py 162-291).

\* The hook modules of the model, <configuration name>.<lookup_module>, and
\* the class statements each executes when it is first imported.  socon.core
\* has no such module; the plugin a defines F and then G.
LookupModule == <<"l">>

ModuleName(config, lookup) == config.name \o <<".">> \o lookup

ModuleHooks(module) ==
    LET F == [NoHook EXCEPT !.cls = "F", !.name = "f", !.manager = "m",
                            !.module = module]
        G == [NoHook EXCEPT !.cls = "G", !.manager = "m", !.module = module]
        F2 == [F EXCEPT !.cls = "F2"]
        Command(cls, name) ==
            [NoHook EXCEPT !.cls = cls, !.name = name,
                           !.manager = CommandManager.name, !.module = module]
    IN IF module = <<"a", ".", "l">> THEN <<F, G>>
       ELSE IF module = <<"a", ".", "c">>
       THEN <<Command("LaunchCommand", "launch")>>
       ELSE IF module = <<"a", ".", "b", ".", "c">>
       THEN <<Command("LaunchCommand", "launch"),
              Command("SimpleCommand", "simple_command")>>
       ELSE IF module = <<"s", ".", "k", ".", "c">>
       THEN <<Command("CheckCommand", "check")>>
       ELSE IF module = <<"q", ".", "l">> THEN <<F, F2>>
       ELSE IF module \in { <<"u", ".", "l">>, <<"a", ".", "b", ".", "l">>,
                            <<"p", ".", "b", ".", "l">> }
       THEN <<F>>
       ELSE <<>>

ExistingModules ==
    { <<"u", ".", "l">>, <<"a", ".", "l">>, <<"a", ".", "b", ".", "l">>,
      <<"p", ".", "b", ".", "l">>, <<"q", ".", "l">>,
      <<"a", ".", "c">>, <<"a", ".", "b", ".", "c">>,
      <<"s", ".", "k", ".", "c">> }

\* the class statements of a module, executed in order up to the first one
\* that raises (o is the outcome of the i-th statement)
RECURSIVE exec_module(_, _, _, _)
exec_module(mgrs, regs, defs, i) ==
    IF i > Len(defs) THEN [managers |-> mgrs, raised |-> "none"]
    ELSE CHOOSE r \in
           {IF o.raised # "none" THEN o
            ELSE exec_module(o.managers, regs, defs, i + 1) :
               o \in {hook_init_subclass(mgrs, regs, defs[i])}} : TRUE

\* importlib.import_module(module): a module of sys.modules is not executed
\* again, and a module whose execution raises is not kept in sys.modules
import_module(mgrs, regs, sysm, module) ==
    IF module \in sysm
    THEN [managers |-> mgrs, sys_modules |-> sysm, raised |-> "none"]
    ELSE IF module \notin ExistingModules
    THEN [managers |-> mgrs, sys_modules |-> sysm,
          raised |-> "ModuleNotFoundError"]
    ELSE CHOOSE r \in
           {[managers |-> o.managers,
             sys_modules |-> IF o.raised = "none" THEN sysm \cup {module}
                             ELSE sysm,
             raised |-> o.raised] :
               o \in {exec_module(mgrs, regs, ModuleHooks(module), 1)}} : TRUE

\* BaseManager.find_hooks_impl(config) of the manager named m; config is a
\* RetConfig or RetNone.  _imported_configs is a list the code only tests
\* membership of, kept here as the set of its elements.
find_hooks_impl(mgrs, regs, sysm, m, config) ==
    IF config.kind # "config"
    THEN [managers |-> mgrs, sys_modules |-> sysm, raised |-> "none",
          mods |-> <<>>]
    ELSE IF config.cfgs[1].label \in mgrs[m].imported
    THEN [managers |-> mgrs, sys_modules |-> sysm, raised |-> "none",
          mods |-> <<>>]
    ELSE CHOOSE r \in
           {[managers |-> o.managers, sys_modules |-> o.sys_modules,
             raised |-> IF o.raised = "ModuleNotFoundError" THEN "none"
                        ELSE o.raised,
             mods |-> <<ModuleName(config.cfgs[1], mgrs[m].lookup_module)>>] :
               o \in {import_module(
                        [mgrs EXCEPT ![m].imported =
                                       @ \cup {config.cfgs[1].label}],
                        regs, sysm,
                        ModuleName(config.cfgs[1], mgrs[m].lookup_module))}} :
             TRUE

\* find_hooks_impl for each configuration of a list, up to the first raise;
\* mods are the modules the calls before the i-th have asked for
RECURSIVE find_each(_, _, _, _, _, _, _)
find_each(mgrs, regs, sysm, m, configs, i, mods) ==
    IF i > Len(configs)
    THEN [managers |-> mgrs, sys_modules |-> sysm, raised |-> "none",
          mods |-> mods]
    ELSE CHOOSE r \in
           {IF o.raised # "none" THEN [o EXCEPT !.mods = mods \o o.mods]
            ELSE find_each(o.managers, regs, o.sys_modules, m, configs,
                           i + 1, mods \o o.mods) :
               o \in {find_hooks_impl(mgrs, regs, sysm, m,
                                      RetConfig(configs[i]))}} : TRUE

\* CoreRegistry.get_user_common_config
get_user_common_config(regs, w, env) ==
    IF container_names(w, env) = <<>>
    THEN [raised |-> "none", ret |-> RetNone]
    ELSE IF ~regs["common"].ready
    THEN [raised |-> "RegistryNotReady", ret |-> RetNone]
    ELSE get_registry_config(regs["common"],
                             rpartition_last(ContainerModule))

\* CoreRegistry.get_socon_common_config
get_socon_common_config(regs) ==
    IF ~regs["common"].ready
    THEN [raised |-> "RegistryNotReady", ret |-> RetNone]
    ELSE get_registry_config(regs["common"], rpartition_last(CoreModule))

\* CoreRegistry.get_user_configs: the projects, then the plugins
get_user_configs(regs) ==
    IF ~regs["projects"].ready \/ ~regs["plugins"].ready
    THEN [raised |-> "RegistryNotReady", ret |-> RetNone]
    ELSE [raised |-> "none",
          ret |-> RetConfigs(regs["projects"].configs
                               \o regs["plugins"].configs)]

\* what find_all is to do: the configurations it passes to find_hooks_impl,
\* in order, up to the first lookup that raises, and what that lookup raises
find_all_plan(regs, w, env) ==
    LET core == get_socon_common_config(regs)
        common == get_user_common_config(regs, w, env)
        user == get_user_configs(regs)
    IN IF core.raised # "none"
       THEN [configs |-> <<>>, raised |-> core.raised]
       ELSE IF ~configured(w)
       THEN [configs |-> core.ret.cfgs, raised |-> "none"]
       ELSE IF common.raised # "none"
       THEN [configs |-> core.ret.cfgs, raised |-> common.raised]
       ELSE IF user.raised # "none"
       THEN [configs |-> core.ret.cfgs \o common.ret.cfgs,
             raised |-> user.raised]
       ELSE [configs |-> core.ret.cfgs \o common.ret.cfgs \o user.ret.cfgs,
             raised |-> "none"]

\* BaseManager.find_all of the manager named m
find_all(mgrs, regs, sysm, w, env, m) ==
    LET plan == find_all_plan(regs, w, env)
    IN CHOOSE r \in
         {IF o.raised # "none" THEN o ELSE [o EXCEPT !.raised = plan.raised] :
             o \in {find_each(mgrs, regs, sysm, m, plan.configs, 1, <<>>)}} :
           TRUE

\* BaseManager.get_hook(config, name) on a hooked manager: the hooks of the
\* bucket are compared by their name attribute, in the order they were added
RECURSIVE get_hook(_, _, _, _)
get_hook(mgr, b, name, i) ==
    IF i > Len(mgr.hooks[b]) THEN [raised |-> "none", hook |-> NoHook]
    ELSE IF mgr.hooks[b][i].name = NoName
    THEN [raised |-> "AttributeError", hook |-> NoHook]
    ELSE IF mgr.hooks[b][i].name = name
    THEN [raised |-> "none", hook |-> mgr.hooks[b][i]]
    ELSE get_hook(mgr, b, name, i + 1)

\* get_hook over a list of buckets, up to the first hit or raise
RECURSIVE get_hook_each(_, _, _, _)
get_hook_each(mgr, bs, name, i) ==
    IF i > Len(bs) THEN [raised |-> "HookNotFound", hook |-> NoHook]
    ELSE CHOOSE r \in
           {IF o.raised # "none" \/ o.hook # NoHook THEN o
            ELSE get_hook_each(mgr, bs, name, i + 1) :
               o \in {get_hook(mgr, bs[i], name, 1)}} : TRUE

BucketsOf(reg, configs) ==
    [i \in 1..Len(configs) |-> <<reg, configs[i].label>>]

\* BaseManager.search_hook_impl(name, config); b is the bucket of the
\* configuration passed, <<>> when none is
search_hook_impl(mgr, regs, w, env, name, b) ==
    LET failed(e) == [raised |-> e, hook |-> NoHook]
        first == IF b = <<>> THEN failed("none") ELSE get_hook(mgr, b, name, 1)
        common == get_user_common_config(regs, w, env)
        core == get_socon_common_config(regs)
        user == IF ~configured(w) THEN <<>>
                ELSE BucketsOf("common", common.ret.cfgs)
                       \o BucketsOf("plugins", regs["plugins"].configs)
    IN IF ~is_hooked(mgr) THEN failed("ManagerNotHooked")
       ELSE IF first.raised # "none" \/ first.hook # NoHook THEN first
       ELSE IF configured(w) /\ common.raised # "none"
       THEN failed(common.raised)
       ELSE IF configured(w) /\ ~regs["plugins"].ready
       THEN failed("RegistryNotReady")
       ELSE IF core.raised # "none" THEN failed(core.raised)
       ELSE get_hook_each(mgr, user \o BucketsOf("common", core.ret.cfgs),
                          name, 1)

----------------------------------------------------------------------------
\* Manager and hook classes being defined.

\* the modules hook classes are defined in: inside the plugin a, inside the
\* project a.b, and outside every configuration
DefModules ==
    { <<"a", ".", "z">>, <<"a", ".", "b", ".", "z">>, <<"z">> }

\* the hook classes of the model: F has the name f, G has no name attribute
HookF == [NoHook EXCEPT !.cls = "F", !.name = "f"]
HookG == [NoHook EXCEPT !.cls = "G"]

\* how a class statement marks the class: the abstract keyword, and the
\* abstract attribute the class has or inherits
Abstractness ==
    { <<TRUE, "absent">>, <<TRUE, "false">>, <<FALSE, "true">> }

\* the class statements of the model: F for each manager in each module, G
\* and F with no manager in the plugin, and F marked abstract in each way
HookDefinitions ==
    {[HookF EXCEPT !.manager = m, !.module = mod] :
        m \in ManagerNames, mod \in DefModules}
    \cup {[HookG EXCEPT !.manager = "m", !.module = <<"a", ".", "z">>],
          [HookF EXCEPT !.module = <<"a", ".", "z">>]}
    \cup {[HookF EXCEPT !.manager = "m", !.module = <<"a", ".", "z">>,
                        !.abstract = ab[1], !.abstract_attr = ab[2]] :
             ab \in Abstractness}

\* registry.plugins.populate(["a"]) and
\* registry.projects.populate(["a.b"]), as setup() calls them
PopulatePlugins ==
    Populate("plugins", <<Instance(ConfigA)>>, FALSE, TRUE)

PopulateProjects ==
    Populate("projects", <<Ident(<<"a", ".", "b">>)>>, FALSE, TRUE)

\* class C(BaseManager): ... is executed
DefineManager ==
    \E c \in ManagerClasses :
        LET o == manager_init_subclass(managers, c)
        IN /\ managers' = o.managers
           /\ last' = [NoCall EXCEPT !.op = "define_manager",
                                     !.raised = o.raised,
                                     !.mgr = c.name, !.cls = c.cls]
           /\ UNCHANGED <<regvars, wrapped, env_settings_module, blocks,
                          sys_modules, cmdvars>>

\* class H(Hook): ... is executed in one of the modules
DefineHook ==
    \E hook \in HookDefinitions :
        /\ NumHooks(hook_init_subclass(managers, AllRegs, hook).managers)
             <= MaxHooks
        /\ LET o == hook_init_subclass(managers, AllRegs, hook)
               owner == core_containing(AllRegs, hook.module)
           IN /\ managers' = o.managers
              /\ last' = [NoCall EXCEPT !.op = "define_hook",
                                        !.raised = o.raised,
                                        !.mgr = hook.manager,
                                        !.hook = hook,
                                        !.owner = owner.reg,
                                        !.ret = RetConfig(owner.cfg)]
        /\ UNCHANGED <<regvars, wrapped, env_settings_module, blocks,
                       sys_modules, cmdvars>>

----------------------------------------------------------------------------
\* Properties of manager and hook definitions (SpecManager).

\* C17: a manager class whose name is already registered raises
\* ImproperlyConfigured when it is defined, and a registered name keeps the
\* manager it was first given.
C17_DuplicateManagerRaises ==
    [][/\ \A n \in ManagerNames :
            managers[n].defined
              => /\ managers'[n].defined
                 /\ managers'[n].cls = managers[n].cls
       /\ (/\ last'.op = "define_manager"
           /\ last'.mgr \in ManagerNames
           /\ managers[last'.mgr].defined)
          => /\ last'.raised = "ImproperlyConfigured"
             /\ managers' = managers]_vars

C17_Witness ==
    /\ last.op = "define_manager"
    /\ last.raised = "ImproperlyConfigured"
    /\ last.mgr = "m"
    /\ managers["m"].defined
    /\ managers["m"].cls # last.cls

\* the names under which the hooks of a bucket are stored
BucketNames(mgr, b) == {hook_name(mgr.hooks[b][i]) : i \in 1..Len(mgr.hooks[b])}

IsPrefix(s, t) == Len(s) <= Len(t) /\ SubSeq(t, 1, Len(s)) = s

Owners(module) ==
    UNION {{<<r, registry_configs[r][i]>> :
               i \in {k \in 1..Len(registry_configs[r]) :
                         contains(registry_configs[r][k], module)}} :
           r \in {q \in {"common", "plugins", "projects"} :
                     registry_ready[q]}}

\* C15: the definition of a non-abstract hook of a defined manager adds the
\* hook to one bucket of that manager, the bucket of a configuration with
\* the longest name among those that contain the module, and changes
\* nothing else; with no such configuration it raises and changes nothing.
C15_HookOwnedByLongestPrefix ==
    [][(/\ last'.op = "define_hook"
        /\ ~is_abstract(last'.hook)
        /\ last'.mgr \in ManagerNames
        /\ managers[last'.mgr].defined)
       => IF Owners(last'.hook.module) = {}
          THEN last'.raised = "RuntimeError" /\ managers' = managers
          ELSE \/ last'.raised = "ImproperlyConfigured" /\ managers' = managers
               \/ /\ last'.raised = "none"
                  /\ \E p \in Owners(last'.hook.module) :
                       /\ \A q \in Owners(last'.hook.module) :
                             Len(q[2].name) <= Len(p[2].name)
                       /\ managers' =
                            [managers EXCEPT
                               ![last'.mgr].hooks[<<p[1], p[2].label>>] =
                                  Append(@, last'.hook)]]_vars

C15_Witness ==
    /\ last.op = "define_hook"
    /\ last.raised = "none"
    /\ last.owner = "projects"
    /\ last.hook.module = <<"a", ".", "b", ".", "z">>
    /\ Cardinality(Owners(last.hook.module)) = 2
    /\ managers[last.mgr].hooks[<<"projects", <<"b">>>>] # <<>>

\* C16: no hook table holds a hook class defined with abstract=True, and a
\* class defined without it, from a base that is abstract by the keyword, is
\* stored under its own name.
C16_AbstractNeverRegistered ==
    /\ \A n \in ManagerNames, b \in Buckets :
          \A i \in 1..Len(managers[n].hooks[b]) :
              ~managers[n].hooks[b][i].abstract
    /\ (/\ last.op = "define_hook"
        /\ last.raised = "none"
        /\ ~last.hook.abstract
        /\ last.hook.abstract_attr = "absent")
         => hook_name(last.hook)
              \in BucketNames(managers[last.mgr],
                              <<last.owner, last.ret.cfgs[1].label>>)

NextManager ==
    \/ PopulatePlugins
    \/ PopulateProjects
    \/ DefineManager
    \/ DefineHook
SpecManager == Init /\ [][NextManager]_vars

----------------------------------------------------------------------------
\* Hook discovery and search as actions.

\* registry.plugins.populate([a, p.b])
PopulateBothPlugins ==
    Populate("plugins", <<Instance(ConfigA), Instance(ConfigPB)>>, FALSE, TRUE)

\* the configurations the registries hold, each with its registry
HeldConfigs ==
    UNION {{<<r, registry_configs[r][i]>> :
               i \in 1..Len(registry_configs[r])} :
           r \in {"common", "plugins", "projects"}}

\* the manager the discovery and search calls are made on
HookManagers == {"m"}

\* class M1(BaseManager): name = "m"; lookup_module = "l"
DefineHookManager ==
    LET c == [cls |-> "M1", name |-> "m", lookup_module |-> LookupModule]
        o == manager_init_subclass(managers, c)
    IN /\ managers' = o.managers
       /\ last' = [NoCall EXCEPT !.op = "define_manager",
                                 !.raised = o.raised,
                                 !.mgr = c.name, !.cls = c.cls]
       /\ UNCHANGED <<regvars, wrapped, env_settings_module, blocks,
                      sys_modules, cmdvars>>

\* manager.find_hooks_impl(config), config one of the registered
\* configurations or None
FindHooksImpl ==
    \E m \in HookManagers, config \in {RetNone} \cup
                             {RetConfig(p[2]) : p \in HeldConfigs} :
        /\ managers[m].defined
        /\ \E o \in {find_hooks_impl(managers, AllRegs, sys_modules, m,
                                   config)} :
              /\ managers' = o.managers
              /\ sys_modules' = o.sys_modules
              /\ last' = [NoCall EXCEPT !.op = "find_hooks_impl",
                                        !.mgr = m, !.raised = o.raised,
                                        !.ret = config, !.mods = o.mods]
        /\ UNCHANGED <<regvars, wrapped, env_settings_module, blocks, cmdvars>>

\* manager.find_all()
FindAll ==
    \E m \in HookManagers :
        /\ managers[m].defined
        /\ \E o \in {find_all(managers, AllRegs, sys_modules, wrapped,
                            env_settings_module, m)} :
              /\ managers' = o.managers
              /\ sys_modules' = o.sys_modules
              /\ last' = [NoCall EXCEPT !.op = "find_all", !.mgr = m,
                                        !.raised = o.raised, !.mods = o.mods]
        /\ UNCHANGED <<regvars, wrapped, env_settings_module, blocks, cmdvars>>

SearchNames == {"f", "G", "x"}

\* manager.search_hook_impl(name, config), config a registered project or
\* plugin configuration or None
SearchHookImpl ==
    \E m \in HookManagers, name \in SearchNames,
       p \in {<<"none", NoConfig>>} \cup
               {q \in HeldConfigs : q[1] \in {"projects", "plugins"}} :
        /\ managers[m].defined
        /\ \E o \in {search_hook_impl(
                       managers[m], AllRegs, wrapped, env_settings_module,
                       name,
                       IF p[1] = "none" THEN <<>> ELSE <<p[1], p[2].label>>)} :
              last' = [NoCall EXCEPT !.op = "search_hook_impl", !.mgr = m,
                                     !.raised = o.raised, !.hname = name,
                                     !.owner = p[1],
                                     !.ret = IF p[1] = "none" THEN RetNone
                                             ELSE RetConfig(p[2]),
                                     !.hook = o.hook]
        /\ UNCHANGED <<regvars, wrapped, env_settings_module, blocks,
                       mgrvars, cmdvars>>

NextHooks ==
    \/ SetSettingsModule
    \/ Setup
    \/ PopulateBothPlugins
    \/ DefineHookManager
    \/ FindHooksImpl
    \/ FindAll
    \/ SearchHookImpl
SpecHooks == Init /\ [][NextHooks]_vars

----------------------------------------------------------------------------
\* Properties of hook discovery and search (SpecHooks).

\* how often a hook class is stored in the tables of its manager
TimesStored(h) ==
    Cardinality(UNION {{<<b, i>> :
                           i \in {k \in 1..Len(managers[h.manager].hooks[b]) :
                                     managers[h.manager].hooks[b][k] = h}} :
                       b \in Buckets})

\* C12: after find_hooks_impl(config) has returned, whether it was the first
\* call for the configuration or a later one, each hook class of the
\* configuration's hook module is stored exactly once.
C12_FindHooksImplOnce ==
    (/\ last.op = "find_hooks_impl"
     /\ last.raised = "none"
     /\ last.ret.kind = "config")
      => LET module == ModuleName(last.ret.cfgs[1],
                                  managers[last.mgr].lookup_module)
         IN \A i \in 1..Len(ModuleHooks(module)) :
                TimesStored(ModuleHooks(module)[i]) = 1

\* the hook modules of a list of configurations, in order
ModulesOf(configs, lookup) ==
    [i \in 1..Len(configs) |-> ModuleName(configs[i], lookup)]

\* s holds no element twice and its elements come in the order of t
InOrderOf(s, t) ==
    \A i, j \in 1..Len(s) :
        i < j => \E k, l \in 1..Len(t) : k < l /\ t[k] = s[i] /\ t[l] = s[j]

\* C18: find_all on unconfigured settings returns without raising and
\* imports at most the core configuration's module; on configured settings,
\* with the registries populated by setup(), it returns with the hook module
\* of the core, the common and every project and plugin configuration
\* imported when it exists, and the modules it imports come in that order.
C18_FindAllOrder ==
    (last.op = "find_all")
      => LET lookup == managers[last.mgr].lookup_module
             all == ModulesOf(registry_configs["common"], lookup)
                      \o ModulesOf(registry_configs["projects"], lookup)
                      \o ModulesOf(registry_configs["plugins"], lookup)
         IN IF ~configured(wrapped)
            THEN /\ last.raised = "none"
                 /\ \A i \in 1..Len(last.mods) :
                       last.mods[i]
                         = ModuleName(RegistryConfig(CoreModule, NoLabel),
                                      lookup)
            ELSE (/\ registry_ready["projects"]
                  /\ registry_ready["plugins"]
                  /\ rpartition_last(ContainerModule)
                       \in Labels(registry_configs["common"]))
                 => /\ last.raised = "none"
                    /\ InOrderOf(last.mods, all)
                    /\ \A i \in 1..Len(all) :
                          all[i] \in ExistingModules
                             => all[i] \in sys_modules

\* the first bucket of a list that holds a hook under the name, <<>> if none
RECURSIVE FirstHolding(_, _, _, _)
FirstHolding(mgr, bs, name, i) ==
    IF i > Len(bs) THEN <<>>
    ELSE IF name \in BucketNames(mgr, bs[i]) THEN bs[i]
    ELSE FirstHolding(mgr, bs, name, i + 1)

\* the buckets search_hook_impl is to look into, in order
SearchOrder ==
    (IF last.owner = "none" THEN <<>>
     ELSE << <<last.owner, last.ret.cfgs[1].label>> >>)
    \o (IF configured(wrapped)
        THEN << <<"common", rpartition_last(ContainerModule)>> >>
               \o BucketsOf("plugins", registry_configs["plugins"])
        ELSE <<>>)
    \o << <<"common", rpartition_last(CoreModule)>> >>

\* C13: search_hook_impl on a manager that has hooks, with the registries
\* populated when the settings are configured, returns the hook stored
\* under the name in the first bucket of the search order that holds one,
\* and raises HookNotFound when none does.
C13_SearchOrder ==
    (/\ last.op = "search_hook_impl"
     /\ is_hooked(managers[last.mgr])
     /\ configured(wrapped)
          => /\ registry_ready["plugins"]
             /\ rpartition_last(ContainerModule)
                  \in Labels(registry_configs["common"]))
      => LET mgr == managers[last.mgr]
             b == FirstHolding(mgr, SearchOrder, last.hname, 1)
         IN IF b = <<>> THEN last.raised = "HookNotFound"
            ELSE /\ last.raised = "none"
                 /\ hook_name(last.hook) = last.hname
                 /\ \E i \in 1..Len(mgr.hooks[b]) : mgr.hooks[b][i] = last.hook

----------------------------------------------------------------------------
\* Project commands as actions.

\* INSTALLED_PROJECTS lists of one and of two projects
CommandProjectLists ==
    { <<Ident(<<"a", ".", "b">>)>>,
      <<Ident(<<"a", ".", "b">>), Instance(ConfigA)>> }

\* the projects attribute of the command classes: the default, the empty
\* list of RestrictedProjectCommand, and lists of one label
CommandProjects ==
    { <<AllProjects>>, <<>>, << <<"b">> >>, << <<"a">> >> }

\* the values of SOCON_ACTIVE_PROJECT
ActiveProjects == { <<"b">>, <<"a">>, <<"x">> }

PopulateCommandProjects ==
    \E installed \in CommandProjectLists :
        Populate("projects", installed, FALSE, TRUE)

SetCommandProjects ==
    \E installed \in CommandProjectLists :
        SetInstalled("projects", installed, FALSE)

UnsetCommandProjects == UnsetInstalled("projects")

\* cmd = SomeProjectCommand()
NewCommand ==
    \E projects \in CommandProjects :
        LET o == project_command_init(Reg("projects"), wrapped,
                                      env_settings_module, projects)
        IN /\ command' = IF o.raised = "none" THEN o.command ELSE command
           /\ wrapped' = o.wrapped
           /\ last' = [NoCall EXCEPT !.op = "command_init",
                                     !.raised = o.raised]
           /\ UNCHANGED <<regvars, env_settings_module, blocks, mgrvars,
                          active_project, active_project_set>>

\* os.environ["SOCON_ACTIVE_PROJECT"] = label, as --project does
SetActiveProject ==
    \E label \in ActiveProjects :
        /\ active_project # label
        /\ active_project' = label
        /\ active_project_set' = TRUE
        /\ last' = NoCall
        /\ UNCHANGED <<regvars, wrapped, env_settings_module, blocks,
                       mgrvars, command>>

\* cmd.execute(config)
Execute ==
    /\ command.made
    /\ LET o == execute(command, Reg("projects"), wrapped,
                        env_settings_module, active_project)
       IN /\ wrapped' = o.wrapped
          /\ last' = [NoCall EXCEPT !.op = "execute", !.raised = o.raised,
                                    !.handled = o.handled, !.ret = o.ret]
    /\ UNCHANGED <<regvars, env_settings_module, blocks, mgrvars, cmdvars>>

NextCommand ==
    \/ PopulateCommandProjects
    \/ SetCommandProjects
    \/ UnsetCommandProjects
    \/ NewCommand
    \/ SetActiveProject
    \/ Execute
SpecCommand == Init /\ [][NextCommand]_vars

\* C20: execute calls handle only with a configuration of the projects
\* registry whose label is in the command's restricted_projects, and a
\* command whose projects list is empty raises CommandError, without
\* calling handle, whenever the active project is an installed one.
C20_HandleOnlyRestricted ==
    (last.op = "execute")
      => /\ last.handled
            => /\ last.raised = "none"
               /\ last.ret.kind = "config"
               /\ in_list(last.ret.cfgs[1], registry_configs["projects"])
               /\ last.ret.cfgs[1].label = active_project
               /\ in_list(last.ret.cfgs[1].label, command.restricted_projects)
         /\ (/\ command.projects = <<>>
             /\ active_project \in Labels(registry_configs["projects"]))
            => /\ last.raised = "CommandError"
               /\ ~last.handled

C20_Witness ==
    /\ last.op = "execute"
    /\ command.projects = <<>>
    /\ Len(registry_configs["projects"]) = 2
    /\ active_project = <<"a">>
    /\ last.raised = "CommandError"

----------------------------------------------------------------------------
\* Properties of the ready flags and the lock of a registry.

\* C25: in every state of a registry, managers_ready is true only if
\* registry_ready is true, during and after set_installed_configs too.
C25_ManagersReadyImpliesRegistryReady ==
    \A r \in Registries : managers_ready[r] => registry_ready[r]

\* C26: a populate call that raises leaves the configurations, the lock and
\* registry_ready of its registry as they were before the call.
C26_RaisedPopulateLeavesRegistry ==
    [][(last'.op = "populate" /\ last'.raised # "none")
        => /\ registry_configs'[last'.reg] = registry_configs[last'.reg]
           /\ lock'[last'.reg] = lock[last'.reg]
           /\ registry_ready'[last'.reg] = registry_ready[last'.reg]]_vars

\* C27: when the unset_installed_configs of a block's __exit__ has run, the
\* lock and registry_ready of the projects registry are what they were just
\* before the set_installed_configs of that block's __enter__.
C27_UnsetRestoresFlags ==
    (last.op = "exit" /\ last.raised = "none" /\ last.opts.has_projects)
    => /\ lock["projects"] = last.pre.lock
       /\ registry_ready["projects"] = last.pre.ready

----------------------------------------------------------------------------
\* Hook discovery over all the registries, and over a hook module whose
\* import raises.

\* C28: when find_all has returned with the settings configured, the hook
\* module of every configuration of the common, plugins and projects
\* registries has been imported if it exists, also when configurations of
\* two registries have one label.
C28_FindAllReachesEveryConfig ==
    (last.op = "find_all" /\ last.raised = "none" /\ configured(wrapped))
      => \A p \in HeldConfigs :
            ModuleName(p[2], managers[last.mgr].lookup_module)
                 \in ExistingModules
              => ModuleName(p[2], managers[last.mgr].lookup_module)
                   \in sys_modules

\* registry.plugins.populate([a, q]): the hook module of q defines two hook
\* classes of one name, so that its import raises ImproperlyConfigured
PopulateFaultyPlugins ==
    Populate("plugins", <<Instance(ConfigA), Instance(ConfigQ)>>, FALSE, TRUE)

NextImport ==
    \/ SetSettingsModule
    \/ Setup
    \/ PopulateFaultyPlugins
    \/ DefineHookManager
    \/ FindHooksImpl
    \/ FindAll
SpecImport == Init /\ [][NextImport]_vars

\* C29: when find_hooks_impl(config) has raised while importing the hook
\* module, the configuration is not recorded as imported.
C29_RaisedImportNotRecorded ==
    (/\ last.op = "find_hooks_impl"
     /\ last.raised # "none"
     /\ last.ret.kind = "config")
      => last.ret.cfgs[1].label \notin managers[last.mgr].imported

----------------------------------------------------------------------------
\* Command dispatch: search_command, ManagementUtility and call_command.
\* An optional string (a project argument, an exit code) is <<>> for None or
\* absent and <<v>> for the value v.

\* the command classes derived from ProjectCommand
IsProjectCommand(hook) == hook.cls = "SimpleCommand"

\* CommandError.__init__: returncode defaults to 1
DefaultReturncode == 1

\* raise CommandError(returncode=3) of the launch command of the tests
LaunchReturncode == 3

\* sys.exit(1) of fetch_command
UnknownCommandExit == 1

\* what the handle method of the command does when it is called
HandleOutcomes ==
    { [raised |-> "none", returncode |-> DefaultReturncode],
      [raised |-> "CommandError", returncode |-> DefaultReturncode],
      [raised |-> "CommandError", returncode |-> LaunchReturncode],
      [raised |-> "ValueError", returncode |-> DefaultReturncode] }

\* os.environ["SOCON_ACTIVE_PROJECT"] = value
setenv_project(environ, value) ==
    [environ EXCEPT !.project = value, !.project_set = TRUE]

\* handle_default_options(options), no --settings given
handle_default_options(environ, project) ==
    IF project # <<>> /\ project[1] # <<>>
    THEN setenv_project(environ, project[1])
    ELSE environ

\* set_env.__exit__ that leaves os.environ as the body left it
set_env_exit_keeps(old_environ, environ) == environ

\* set_env: the finally clause clears os.environ and puts the copy back
set_env_exit(old_environ, environ) == old_environ

\* search_command in which a set SOCON_ACTIVE_PROJECT takes over the argument
search_command_env_first(mgr, regs, w, environ, name, project) ==
    LET current_project == IF environ.project # <<>> THEN environ.project
                           ELSE IF project # <<>> THEN project[1]
                           ELSE <<>>
        failed(e, wr) == [raised |-> e, hook |-> NoHook, wrapped |-> wr]
        search(b) ==
            CHOOSE r \in
              {[raised |-> IF o.raised = "HookNotFound"
                           THEN "CommandNotFound" ELSE o.raised,
                hook |-> o.hook, wrapped |-> w] :
                  o \in {search_hook_impl(mgr, regs, w,
                                          environ.settings_module, name, b)}} :
              TRUE
    IN IF current_project = <<>> THEN search(<<>>)
       ELSE CHOOSE r \in
              {IF q.raised = "LookupError"
               THEN failed("CommandError", q.wrapped)
               ELSE IF q.raised # "none" THEN failed(q.raised, q.wrapped)
               ELSE search(<<"projects", q.ret.cfgs[1].label>>) :
                 q \in {query("get_registry_config", regs["projects"], w,
                              environ.settings_module, current_project)}} :
              TRUE

\* CommandManager.search_command(name, project) with os.environ as given
search_command(mgr, regs, w, environ, name, project) ==
    LET current_project == IF project # <<>> THEN project[1]
                           ELSE environ.project
        failed(e, wr) == [raised |-> e, hook |-> NoHook, wrapped |-> wr]
        search(b) ==
            CHOOSE r \in
              {[raised |-> IF o.raised = "HookNotFound"
                           THEN "CommandNotFound" ELSE o.raised,
                hook |-> o.hook, wrapped |-> w] :
                  o \in {search_hook_impl(mgr, regs, w,
                                          environ.settings_module, name, b)}} :
              TRUE
    IN IF current_project = <<>> THEN search(<<>>)
       ELSE CHOOSE r \in
              {IF q.raised = "LookupError"
               THEN failed("CommandError", q.wrapped)
               ELSE IF q.raised # "none" THEN failed(q.raised, q.wrapped)
               ELSE search(<<"projects", q.ret.cfgs[1].label>>) :
                 q \in {query("get_registry_config", regs["projects"], w,
                              environ.settings_module, current_project)}} :
              TRUE

\* BaseManager.get_hooks_name: the names of all the hooks of the manager
get_hooks_name(mgr) ==
    UNION {{hook_name(mgr.hooks[b][i]) : i \in 1..Len(mgr.hooks[b])} :
           b \in Buckets}

\* get_hook_config_holders that looks into the common registry only
get_hook_config_holders_common(mgr, name) ==
    {b[2] : b \in {c \in Buckets :
                     /\ c[1] = "common"
                     /\ \E i \in 1..Len(mgr.hooks[c]) :
                           hook_name(mgr.hooks[c][i]) = name}}

\* BaseManager.get_hook_config_holders(name): the labels of the
\* configurations whose table holds the name (their order is not kept)
get_hook_config_holders(mgr, name) ==
    {b[2] : b \in {c \in Buckets :
                     \E i \in 1..Len(mgr.hooks[c]) :
                         hook_name(mgr.hooks[c][i]) = name}}

\* command(): ProjectCommand.__init__ for the project commands, whose
\* projects attribute is the default ["__all__"]; BaseCommand.__init__ for
\* the others
command_init(hook, regs, w, environ) ==
    IF IsProjectCommand(hook)
    THEN project_command_init(regs["projects"], w, environ.settings_module,
                              <<AllProjects>>)
    ELSE [command |-> NoCommand, wrapped |-> w, raised |-> "none"]

\* command.execute(config): ProjectCommand.execute, or BaseCommand.execute
\* which calls handle at once; outcome is what handle does
command_execute(hook, cmd, regs, w, environ, outcome) ==
    IF IsProjectCommand(hook)
    THEN CHOOSE r \in
           {IF e.handled
            THEN [wrapped |-> e.wrapped, raised |-> outcome.raised,
                  returncode |-> outcome.returncode, handled |-> TRUE,
                  ret |-> e.ret]
            ELSE [wrapped |-> e.wrapped, raised |-> e.raised,
                  returncode |-> DefaultReturncode, handled |-> FALSE,
                  ret |-> RetNone] :
              e \in {execute(cmd, regs["projects"], w,
                             environ.settings_module, environ.project)}} :
           TRUE
    ELSE [wrapped |-> w, raised |-> outcome.raised,
          returncode |-> outcome.returncode, handled |-> TRUE,
          ret |-> RetNone]

\* the outcome of a dispatch that ended before a command was run
NoDispatch(mgrs, regs, sysm, w, environ, e) ==
    [managers |-> mgrs, regs |-> regs, sys_modules |-> sysm, wrapped |-> w,
     environ |-> environ, raised |-> e, exit |-> <<>>, hook |-> NoHook,
     holders |-> {}, command |-> NoCommand, handled |-> FALSE,
     ret |-> RetNone, inside |-> environ, execute_raised |-> "none",
     returncode |-> DefaultReturncode]

\* ManagementUtility.fetch_command(subcommand): fa is what get_commands()
\* gave, s what search_command gave
fetch_command_found(fa, s, regs, environ, subcommand) ==
    LET none == NoDispatch(fa.managers, regs, fa.sys_modules, s.wrapped,
                           environ, s.raised)
        mgr == fa.managers[CommandManager.name]
    IN IF s.raised = "CommandNotFound"
       THEN IF environ.settings_module
               /\ setup(s.wrapped, environ.settings_module).raised # "none"
            THEN [none EXCEPT
                    !.raised = setup(s.wrapped,
                                     environ.settings_module).raised]
            ELSE [none EXCEPT
                    !.raised = "SystemExit",
                    !.exit = <<UnknownCommandExit>>,
                    !.wrapped = IF environ.settings_module
                                THEN setup(s.wrapped, TRUE).wrapped
                                ELSE s.wrapped,
                    !.holders = IF subcommand \in get_hooks_name(mgr)
                                THEN get_hook_config_holders(mgr, subcommand)
                                ELSE {}]
       ELSE IF s.raised # "none" THEN none
       ELSE CHOOSE r \in
              {[none EXCEPT !.raised = c.raised, !.wrapped = c.wrapped,
                            !.hook = IF c.raised = "none" THEN s.hook
                                     ELSE NoHook,
                            !.command = c.command] :
                 c \in {command_init(s.hook, regs, s.wrapped, environ)}} :
              TRUE

fetch_command(mgrs, regs, sysm, w, environ, subcommand) ==
    CHOOSE r \in
      {IF fa.raised # "none"
       THEN NoDispatch(fa.managers, regs, fa.sys_modules, w, environ,
                       fa.raised)
       ELSE CHOOSE r2 \in
              {fetch_command_found(fa, s, regs, environ, subcommand) :
                 s \in {search_command(fa.managers[CommandManager.name],
                                       regs, w, environ, subcommand, <<>>)}} :
              TRUE :
         fa \in {find_all(mgrs, regs, sysm, w, environ.settings_module,
                          CommandManager.name)}} : TRUE

\* run_from_argv that exits also when --traceback is given
run_from_argv_always_exits(f, project, traceback, outcome) ==
    LET environ == handle_default_options(f.environ, project)
    IN CHOOSE r \in
         {IF e.raised = "CommandError"
          THEN [f EXCEPT !.environ = environ, !.wrapped = e.wrapped,
                         !.raised = "SystemExit",
                         !.exit = <<e.returncode>>,
                         !.handled = e.handled, !.ret = e.ret,
                         !.execute_raised = e.raised,
                         !.returncode = e.returncode]
          ELSE [f EXCEPT !.environ = environ, !.wrapped = e.wrapped,
                         !.raised = e.raised, !.handled = e.handled,
                         !.ret = e.ret, !.execute_raised = e.raised,
                         !.returncode = e.returncode] :
            e \in {command_execute(f.hook, f.command, f.regs, f.wrapped,
                                   environ, outcome)}} : TRUE

\* BaseCommand.run_from_argv(argv) of the command fetch_command returned in
\* f: a CommandError of execute is raised again with --traceback, and ends
\* the process with its returncode without
run_from_argv(f, project, traceback, outcome) ==
    LET environ == handle_default_options(f.environ, project)
    IN CHOOSE r \in
         {IF e.raised = "CommandError" /\ ~traceback
          THEN [f EXCEPT !.environ = environ, !.wrapped = e.wrapped,
                         !.raised = "SystemExit",
                         !.exit = <<e.returncode>>,
                         !.handled = e.handled, !.ret = e.ret,
                         !.execute_raised = e.raised,
                         !.returncode = e.returncode]
          ELSE [f EXCEPT !.environ = environ, !.wrapped = e.wrapped,
                         !.raised = e.raised, !.handled = e.handled,
                         !.ret = e.ret, !.execute_raised = e.raised,
                         !.returncode = e.returncode] :
            e \in {command_execute(f.hook, f.command, f.regs, f.wrapped,
                                   environ, outcome)}} : TRUE

\* ManagementUtility([prog, subcommand, ...]).execute(): the options are
\* handled, the settings are read (an ImproperlyConfigured is kept for the
\* help text), setup() is run when they are configured, and the command is
\* fetched and run
utility_execute(mgrs, regs, sysm, w, environ0, name, project, tb, outcome) ==
    LET environ == handle_default_options(environ0, project)
        w1 == setup(w, environ.settings_module).wrapped
    IN CHOOSE r \in
         {IF su.raised # "none"
          THEN NoDispatch(mgrs, su.regs, sysm, su.wrapped, environ, su.raised)
          ELSE CHOOSE r2 \in
                 {IF f.raised # "none" THEN f
                  ELSE run_from_argv(f, project, tb, outcome) :
                    f \in {fetch_command(mgrs, su.regs, sysm, su.wrapped,
                                         environ, name)}} : TRUE :
            su \in {IF configured(w1)
                    THEN socon_setup(regs, w1, environ.settings_module)
                    ELSE [regs |-> regs, wrapped |-> w1,
                          raised |-> "none"]}} : TRUE

\* call_command(name, *args): flag tells whether "--project" is among the
\* args and value is the argument after it, if there is one.  hook is the
\* class search_command gave and inside is os.environ as execute met it.
call_command(mgrs, sysm, regs, w, environ, name, flag, value, outcome) ==
    LET project == IF flag /\ value # <<>> THEN value[1] ELSE <<>>
        inside == setenv_project(environ,
                                 IF project # <<>> THEN project
                                 ELSE environ.project)
        ended(fa, wr, e) ==
            [NoDispatch(fa.managers, regs, fa.sys_modules, wr, environ, e)
               EXCEPT !.exit = <<>>]
        run(fa, s) ==
            CHOOSE r \in
              {IF c.raised # "none"
               THEN [ended(fa, c.wrapped, c.raised) EXCEPT !.hook = s.hook]
               ELSE CHOOSE r2 \in
                      {[ended(fa, e.wrapped, e.raised) EXCEPT
                          !.hook = s.hook, !.command = c.command,
                          !.handled = e.handled, !.ret = e.ret,
                          !.exit = IF e.raised = "CommandError"
                                   THEN <<e.returncode>> ELSE <<>>,
                          !.inside = inside,
                          !.execute_raised = e.raised,
                          !.returncode = e.returncode,
                          !.environ = set_env_exit(environ, inside)] :
                         e \in {command_execute(s.hook, c.command, regs,
                                                c.wrapped, inside,
                                                outcome)}} : TRUE :
                 c \in {command_init(s.hook, regs, s.wrapped, environ)}} :
              TRUE
    IN CHOOSE r \in
         {IF fa.raised # "none" THEN ended(fa, w, fa.raised)
          ELSE IF flag /\ value = <<>> THEN ended(fa, w, "CommandError")
          ELSE CHOOSE r2 \in
                 {IF s.raised # "none" THEN ended(fa, s.wrapped, s.raised)
                  ELSE run(fa, s) :
                    s \in {search_command(fa.managers[CommandManager.name],
                                          regs, w, environ, name,
                                          <<project>>)}} : TRUE :
            fa \in {find_all(mgrs, regs, sysm, w, environ.settings_module,
                             CommandManager.name)}} : TRUE

----------------------------------------------------------------------------
\* Command dispatch as actions.

\* os.environ of the current state
CurrentEnviron ==
    Environ(env_settings_module, active_project, active_project_set)

SetEnviron(environ) ==
    /\ env_settings_module' = environ.settings_module
    /\ active_project' = environ.project
    /\ active_project_set' = environ.project_set

\* the command names asked for: two of the projects, one of the core and
\* one that no configuration has
CommandNames == {"launch", "simple_command", "check", "x"}

\* the project argument of search_command: None, "" and three labels
ProjectArguments == {<<>>, << <<>> >>} \cup {<<p>> : p \in ActiveProjects}

\* the --project option of a command line: absent, or one of three labels
ProjectOptions == {<<>>} \cup {<<p>> : p \in ActiveProjects}

\* importing socon.core.management.base defines the command manager
DefineCommandManager ==
    LET o == manager_init_subclass(managers, CommandManager)
    IN /\ managers' = o.managers
       /\ last' = [NoCall EXCEPT !.op = "define_manager",
                                 !.raised = o.raised,
                                 !.mgr = CommandManager.name,
                                 !.cls = CommandManager.cls]
       /\ UNCHANGED <<regvars, wrapped, env_settings_module, blocks,
                      sys_modules, cmdvars>>

\* get_commands().search_command(name, project)
SearchCommand ==
    \E name \in CommandNames, project \in ProjectArguments :
        /\ managers[CommandManager.name].defined
        /\ \E o \in {search_command(managers[CommandManager.name], AllRegs,
                                    wrapped, CurrentEnviron, name, project)} :
              /\ wrapped' = o.wrapped
              /\ last' = [NoCall EXCEPT !.op = "search_command",
                                        !.mgr = CommandManager.name,
                                        !.raised = o.raised,
                                        !.hname = name, !.project = project,
                                        !.hook = o.hook,
                                        !.environ = CurrentEnviron]
        /\ UNCHANGED <<regvars, env_settings_module, blocks, mgrvars,
                       cmdvars>>

\* ManagementUtility(["manage.py", subcommand, "--project", p,
\* "--traceback"]).execute(), each option present or not
ExecuteFromCommandLine ==
    \E subcommand \in CommandNames, project \in ProjectOptions,
       traceback \in BOOLEAN, outcome \in HandleOutcomes :
        /\ managers[CommandManager.name].defined
        /\ \E o \in {utility_execute(managers, AllRegs, sys_modules, wrapped,
                                     CurrentEnviron, subcommand, project,
                                     traceback, outcome)} :
              /\ SetRegs(o.regs)
              /\ managers' = o.managers
              /\ sys_modules' = o.sys_modules
              /\ wrapped' = o.wrapped
              /\ SetEnviron(o.environ)
              /\ last' = [NoCall EXCEPT !.op = "execute_from_command_line",
                                        !.mgr = CommandManager.name,
                                        !.raised = o.raised,
                                        !.hname = subcommand,
                                        !.project = project,
                                        !.traceback = traceback,
                                        !.hook = o.hook,
                                        !.handled = o.handled,
                                        !.ret = o.ret, !.exit = o.exit,
                                        !.holders = o.holders,
                                        !.execute_raised = o.execute_raised,
                                        !.returncode =
                                           IF o.execute_raised
                                                = "CommandError"
                                           THEN <<o.returncode>> ELSE <<>>,
                                        !.environ = CurrentEnviron]
        /\ UNCHANGED <<blocks, command>>

\* call_command(name), call_command(name, "--project") and
\* call_command(name, "--project", p)
CallCommand ==
    \E name \in CommandNames, flag \in BOOLEAN, value \in ProjectOptions,
       outcome \in HandleOutcomes :
        /\ managers[CommandManager.name].defined
        /\ flag \/ value = <<>>
        /\ \E o \in {call_command(managers, sys_modules, AllRegs, wrapped,
                                  CurrentEnviron, name, flag, value,
                                  outcome)} :
              /\ managers' = o.managers
              /\ sys_modules' = o.sys_modules
              /\ wrapped' = o.wrapped
              /\ SetEnviron(o.environ)
              /\ last' = [NoCall EXCEPT !.op = "call_command",
                                        !.mgr = CommandManager.name,
                                        !.raised = o.raised,
                                        !.hname = name,
                                        !.project = IF flag THEN <<value>>
                                                    ELSE <<>>,
                                        !.hook = o.hook,
                                        !.handled = o.handled,
                                        !.ret = o.ret, !.exit = o.exit,
                                        !.environ = CurrentEnviron,
                                        !.execute_raised = o.execute_raised,
                                        !.inside = o.inside]
        /\ UNCHANGED <<regvars, blocks, command>>

\* a process started from the command line
NextCommandLine ==
    \/ SetSettingsModule
    \/ PopulateCommandProjects
    \/ DefineCommandManager
    \/ SetActiveProject
    \/ ExecuteFromCommandLine
SpecCommandLine == Init /\ [][NextCommandLine]_vars

\* a program that calls commands itself
NextCall ==
    \/ SetSettingsModule
    \/ PopulateCommandProjects
    \/ Setup
    \/ DefineCommandManager
    \/ SetActiveProject
    \/ SearchCommand
    \/ CallCommand
SpecCall == Init /\ [][NextCall]_vars

----------------------------------------------------------------------------
\* Properties of command dispatch (SpecCall, SpecCommandLine).

\* the hooks the command manager holds for a project label
ProjectCommands(label) ==
    managers[CommandManager.name].hooks[<<"projects", label>>]

\* C21: search_command looks first into the project named by its project
\* argument when one is given and else by SOCON_ACTIVE_PROJECT: a command
\* that project holds is the one returned, whatever the other of the two
\* names, and a project that is not installed raises CommandError.
C21_SearchCommandProject ==
    (/\ last.op = "search_command"
     /\ is_hooked(managers[last.mgr])
     /\ registry_ready["projects"])
      => LET current == IF last.project # <<>> THEN last.project[1]
                        ELSE active_project
         IN current # <<>>
              => IF current \notin Labels(registry_configs["projects"])
                 THEN last.raised = "CommandError"
                 ELSE (\E i \in 1..Len(ProjectCommands(current)) :
                          ProjectCommands(current)[i].name = last.hname)
                      => /\ last.raised = "none"
                         /\ last.hook.name = last.hname
                         /\ \E i \in 1..Len(ProjectCommands(current)) :
                               ProjectCommands(current)[i] = last.hook

\* launch is searched with the project argument b while SOCON_ACTIVE_PROJECT
\* is a, both projects have a launch command, and that of b is returned
C21_Witness ==
    /\ last.op = "search_command"
    /\ last.hname = "launch"
    /\ last.project = << <<"b">> >>
    /\ active_project = <<"a">>
    /\ \E i \in 1..Len(ProjectCommands(<<"a">>)) :
          ProjectCommands(<<"a">>)[i].name = "launch"
    /\ last.raised = "none"
    /\ last.hook.module = <<"a", ".", "b", ".", "c">>

\* C22: when the execute of a command run from the command line raises
\* CommandError, the process exits with the error's returncode (1 when none
\* was given) if --traceback was not passed, and the CommandError is raised
\* to the caller, with no exit, if it was.
C22_CommandErrorExit ==
    (/\ last.op = "execute_from_command_line"
     /\ last.execute_raised = "CommandError")
      => IF last.traceback
         THEN last.raised = "CommandError" /\ last.exit = <<>>
         ELSE /\ last.raised = "SystemExit"
              /\ last.exit = last.returncode
              /\ last.exit \in {<<1>>, <<LaunchReturncode>>}

\* the handle of launch raises CommandError(returncode=3) without
\* --traceback, and the process exits with 3
C22_Witness ==
    /\ last.op = "execute_from_command_line"
    /\ last.hname = "launch"
    /\ last.handled
    /\ ~last.traceback
    /\ last.execute_raised = "CommandError"
    /\ last.exit = <<LaunchReturncode>>

\* the tables of the command manager that hold a hook under the name
HoldersOf(name) ==
    {b \in Buckets :
       \E i \in 1..Len(managers[CommandManager.name].hooks[b]) :
           hook_name(managers[CommandManager.name].hooks[b][i]) = name}

\* the tables a dispatch with the environment of the state looks into
DispatchBuckets ==
    (IF active_project = <<>> THEN {}
     ELSE {<<"projects", active_project>>})
    \cup (IF configured(wrapped)
          THEN {<<"common", rpartition_last(ContainerModule)>>}
                 \cup {<<"plugins", l>> :
                         l \in Labels(registry_configs["plugins"])}
          ELSE {})
    \cup {<<"common", rpartition_last(CoreModule)>>}

\* C23: when the subcommand of a command line is held by none of the
\* configurations the dispatch looks into, the process exits with code 1
\* and no command is executed; when no project is active and the name is
\* one that some configuration holds, the labels of all the configurations
\* that hold it are listed.
C23_UnknownCommandExits ==
    (/\ last.op = "execute_from_command_line"
     /\ is_hooked(managers[last.mgr])
     /\ \/ active_project = <<>>
        \/ /\ registry_ready["projects"]
           /\ active_project \in Labels(registry_configs["projects"])
     /\ DispatchBuckets \cap HoldersOf(last.hname) = {})
      => /\ last.raised = "SystemExit"
         /\ last.exit = <<1>>
         /\ ~last.handled
         /\ last.hook = NoHook
         /\ (active_project = <<>> /\ HoldersOf(last.hname) # {})
              => last.holders = {b[2] : b \in HoldersOf(last.hname)}

\* simple_command, which project b alone holds, is asked for with no active
\* project: the process exits with 1 and b is listed
C23_Witness ==
    /\ last.op = "execute_from_command_line"
    /\ last.hname = "simple_command"
    /\ active_project = <<>>
    /\ last.raised = "SystemExit"
    /\ last.exit = <<1>>
    /\ last.holders = {<<"b">>}
    /\ Len(registry_configs["projects"]) = 2

\* C24: a call_command step, whether it returns or raises, leaves
\* os.environ as it was before the call, SOCON_ACTIVE_PROJECT included,
\* also when --project named another project than the active one and when
\* the variable was not set.
C24_CallCommandKeepsEnviron ==
    [][(last'.op = "call_command")
        => /\ env_settings_module' = env_settings_module
           /\ active_project' = active_project
           /\ active_project_set' = active_project_set]_vars

\* launch of project b was executed with SOCON_ACTIVE_PROJECT set to b for
\* the time of the call and raised CommandError, and the variable is unset
\* as it was before
C24_Witness ==
    /\ last.op = "call_command"
    /\ last.handled
    /\ last.raised = "CommandError"
    /\ last.project = << <<"b">> >>
    /\ last.inside.project = <<"b">>
    /\ last.inside.project_set
    /\ ~active_project_set

\* the --project option a command line needs to give call_command's
\* arguments: the value after --project, if there is one
OptionOf(project) == IF project = <<>> THEN <<>> ELSE project[1]

\* C30: with the registries populated by setup(), call_command resolves the
\* command class that ManagementUtility resolves for the same name,
\* SOCON_ACTIVE_PROJECT and --project.
C30_CallCommandResolvesAsDispatch ==
    [][(/\ last'.op = "call_command"
        /\ last'.project # << <<>> >>
        /\ configured(wrapped)
        /\ \A r \in {"projects", "plugins"} : registry_ready[r] /\ lock[r])
        => \E d \in {utility_execute(managers, AllRegs, sys_modules, wrapped,
                                     CurrentEnviron, last'.hname,
                                     OptionOf(last'.project), FALSE,
                                     CHOOSE o \in HandleOutcomes :
                                        o.raised = "none")} :
              last'.hook = d.hook]_vars

============================================================================
